---- MODULE Spec2Model ----
(***************************************************************************)
(* A model of the CoCorels v3 ethical scoring pipeline                     *)
(* (src/cocorels_v3.py): trait assessment, the duty and core boosts, the   *)
(* interaction matrix, conflict detection, the stateful conflict resolver  *)
(* with its triple-redundant decay, score aggregation, the FIFO task       *)
(* scheduler and the process_ethical_dilemma entry point.                  *)
(*                                                                         *)
(* Numbers.  Scores are Python ints.  Interaction weights and the conflict *)
(* threshold are held in hundredths (0.5 is 50, -0.35 is -35).  The        *)
(* momentum is an exact rational with the fixed denominator MomOne.  The   *)
(* adjustment factors are binary64 in the code and fixed point with        *)
(* denominator FactorOne here (truncating), which is an approximation.     *)
(* Python dicts are records [keys, val]: the insertion order and the       *)
(* mapping.  Indices are 1-based here and 0-based in the code.             *)
(***************************************************************************)
EXTENDS Integers, Sequences, FiniteSets, TLC

\* ------------------------------------------------------------------ bounds
\* The most dilemmas ever enqueued on one scheduler.
MaxDilemmas == 3
\* The most dilemmas pending at once.
MaxQueue == 2

\* --------------------------------------------------------- configuration
CORE_TRAITS == <<"NC", "DI">>
\* CORE_TRAIT_BOOST = 1.08 and DUTY_BOOST_FACTOR = 1.15, in hundredths.
CORE_TRAIT_BOOST == 108
DUTY_BOOST_FACTOR == 115
HAS_VECTOR_UNIT == TRUE
SCORE_MIN == 0
SCORE_MAX == 30000
NEUTRAL_SCORE == 15000

None == "None"

\* An exception: its class and what its message names.
Exc(type, msg) == [type |-> type, msg |-> msg]
NoExc == Exc(None, <<>>)

\* ---------------------------------------------------------------- helpers
Max(a, b) == IF a >= b THEN a ELSE b
Min(a, b) == IF a <= b THEN a ELSE b
Abs(a) == IF a < 0 THEN 0 - a ELSE a
Range(s) == {s[i] : i \in 1..Len(s)}

\* int(): truncation toward zero of the rational n / d, d > 0.
TruncDiv(n, d) == IF n >= 0 THEN n \div d ELSE 0 - ((0 - n) \div d)

RECURSIVE Pow10(_)
Pow10(k) == IF k = 0 THEN 1 ELSE 10 * Pow10(k - 1)

\* A Python dict: insertion order and mapping.
EmptyDict == [keys |-> <<>>, val |-> <<>>]
DictHas(d, k) == k \in Range(d.keys)
DictGet(d, k, default) == IF DictHas(d, k) THEN d.val[k] ELSE default
DictSet(d, k, v) ==
    IF DictHas(d, k)
    THEN [keys |-> d.keys, val |-> [d.val EXCEPT ![k] = v]]
    ELSE [keys |-> Append(d.keys, k),
          val |-> [x \in Range(d.keys) \cup {k} |-> IF x = k THEN v ELSE d.val[x]]]
IndexOf(s, x) == CHOOSE i \in 1..Len(s) : s[i] = x

\* ----------------------------------------------------------- the taxonomy
\* A predicate text keeps its whitespace structure: "x" is any non-blank
\* character.
Anchor(text) == [present |-> TRUE, isstr |-> TRUE, text |-> text]
TwoWords == <<"x", " ", "x">>
ThreeWords == <<"x", " ", "x", " ", "x">>

TraitOrder == <<"TC", "CA", "IL", "DP", "NC", "CS", "RE", "ES", "TR", "CPv", "KS", "DI">>

MidLevelOf(t) ==
    CASE t \in {"TC", "CA", "IL"} -> "Duty"
      [] t \in {"DP", "NC"} -> "Respect"
      [] t = "CS" -> "Community"
      [] t \in {"RE", "ES", "DI"} -> "Wisdom"
      [] t = "TR" -> "Honesty"
      [] t \in {"CPv", "KS"} -> "Safety"

sub_traits_jbo ==
    [keys |-> TraitOrder,
     val |-> [t \in Range(TraitOrder) |->
                [MidLevel |-> MidLevelOf(t),
                 LojbanPredicate |-> Anchor(IF t = "TC" THEN ThreeWords ELSE TwoWords)]]]

\* ------------------------------------------------------------ clamp_score
clamp_score_none(v) == v
clamp_score_upper_only(v) == Min(SCORE_MAX, v)
clamp_score(v) == Max(SCORE_MIN, Min(SCORE_MAX, v))

\* ------------------------------------------------- binary64 multiplication
\* int(v * 0.95) and int(v * 1.08) for an int v in 0..SCORE_MAX: the binary64
\* product truncates to the same integer as the exact product.
FloatMulTrunc(v, hundredths) == TruncDiv(v * hundredths, 100)

\* The largest power of two strictly below n, n >= 2.
RECURSIVE PowTwoBelow(_, _)
PowTwoBelow(n, p) == IF 2 * p < n THEN PowTwoBelow(n, 2 * p) ELSE p

\* int(v * 1.15) for an int v.  binary64(1.15) is 1.15 - 0.4 / 2^52, so an
\* exact product N = 1.15 |v| that is an integer is computed as N - 0.4 |v| /
\* 2^52 and rounds to the binary64 below N, which truncates to N - 1, when
\* 0.4 |v| / 2^52 is more than half the spacing below N.  The product of a
\* negative v is the negated product of -v, and int() truncates toward zero.
FloatMulTrunc115(v) ==
    LET a == Abs(v)
        n == a * DUTY_BOOST_FACTOR
        N == n \div 100
        r == IF n % 100 # 0 \/ N < 2 THEN N
             ELSE IF 4 * a > 5 * PowTwoBelow(N, 1) THEN N - 1 ELSE N
    IN  IF v < 0 THEN 0 - r ELSE r

\* ------------------------------------------------------------- assessment
\* A response of llm_integration.query: a string (its characters), a value
\* that is not a string, or an exception raised by the call.
StrResp(text) == [kind |-> "str", text |-> text, exc |-> NoExc]
NonStrResp == [kind |-> "nonstr", text |-> <<>>, exc |-> NoExc]
RaiseResp(e) == [kind |-> "raise", text |-> <<>>, exc |-> e]

DigitChars == <<"0", "1", "2", "3", "4", "5", "6", "7", "8", "9">>
IsDigit(c) == c \in Range(DigitChars)
DigitVal(c) == IndexOf(DigitChars, c) - 1
IsSpace(c) == c \in {" ", "\n", "\t"}

\* str.strip()
RECURSIVE LStrip(_)
LStrip(s) == IF s # <<>> /\ IsSpace(Head(s)) THEN LStrip(Tail(s)) ELSE s
RECURSIVE RStrip(_)
RStrip(s) ==
    IF s # <<>> /\ IsSpace(s[Len(s)]) THEN RStrip(SubSeq(s, 1, Len(s) - 1)) ELSE s
Strip(s) == LStrip(RStrip(s))

\* The digits of an int literal: digits, with single underscores between them.
RECURSIVE ParseDigits(_, _, _)
ParseDigits(s, acc, afterDigit) ==
    IF s = <<>> THEN [ok |-> afterDigit, v |-> acc]
    ELSE IF IsDigit(Head(s))
         THEN ParseDigits(Tail(s), 10 * acc + DigitVal(Head(s)), TRUE)
    ELSE IF Head(s) = "_" /\ afterDigit /\ Len(s) > 1 /\ IsDigit(s[2])
         THEN ParseDigits(Tail(s), acc, FALSE)
    ELSE [ok |-> FALSE, v |-> 0]

\* int(text): ok is FALSE where Python raises ValueError.
ParseInt(text) ==
    LET s == Strip(text)
        neg == s # <<>> /\ Head(s) = "-"
        body == IF s # <<>> /\ Head(s) \in {"+", "-"} THEN Tail(s) ELSE s
        p == ParseDigits(body, 0, FALSE)
    IN  [ok |-> p.ok, v |-> IF neg THEN 0 - p.v ELSE p.v]

\* A stand-in for int(sha256(trait + query + context)[:8], 16): some fixed
\* function of the trait and the query.
HashPrefix(trait, query) == IndexOf(TraitOrder, trait) * 1000003 + query * 7919 + 12347

FallbackScore(trait, query) == clamp_score(HashPrefix(trait, query) % (SCORE_MAX + 1))

\* assess_with_lojban_and_natural: [exc, score].  llm is the environment of
\* the call: whether llm_integration has a query attribute, and its response.
assess_with_lojban_and_natural(trait, query, has_query, resp) ==
    IF has_query /\ resp.kind = "raise"
    THEN [exc |-> resp.exc, score |-> 0]
    ELSE IF has_query /\ resp.kind = "str" /\ ParseInt(resp.text).ok
    THEN [exc |-> NoExc, score |-> clamp_score(ParseInt(resp.text).v)]
    ELSE [exc |-> NoExc, score |-> FallbackScore(trait, query)]

\* hw_assess_traits: the traits in order; an exception ends the loop.
RECURSIVE hw_assess_loop(_, _, _, _, _)
hw_assess_loop(query, llm, sub_traits, k, scores) ==
    IF k > Len(sub_traits) THEN [exc |-> NoExc, scores |-> scores]
    ELSE LET t == sub_traits[k]
             r == assess_with_lojban_and_natural(t, query, llm.has_query, llm.resp[t])
         IN  IF r.exc # NoExc THEN [exc |-> r.exc, scores |-> EmptyDict]
             ELSE hw_assess_loop(query, llm, sub_traits, k + 1, DictSet(scores, t, r.score))

hw_assess_traits(query, llm, config, sub_traits) ==
    hw_assess_loop(query, llm, sub_traits, 1, EmptyDict)

\* ------------------------------------------------------------------ boosts
\* The duty boost returning the Duty traits last.
vectorized_duty_boost_duty_last(scores, config) ==
    LET IsDuty(t) == DictHas(config.sub_traits, t)
                     /\ config.sub_traits.val[t].MidLevel = "Duty"
        NotDuty(t) == ~IsDuty(t)
    IN  [keys |-> SelectSeq(scores.keys, NotDuty) \o SelectSeq(scores.keys, IsDuty),
         val |-> [t \in Range(scores.keys) |->
                    IF IsDuty(t)
                    THEN clamp_score(FloatMulTrunc115(scores.val[t]))
                    ELSE clamp_score(scores.val[t])]]

\* The duty boost without the clamp after the multiply.
vectorized_duty_boost_unclamped(scores, config) ==
    [keys |-> scores.keys,
     val |-> [t \in Range(scores.keys) |->
                IF DictHas(config.sub_traits, t)
                   /\ config.sub_traits.val[t].MidLevel = "Duty"
                THEN FloatMulTrunc115(scores.val[t])
                ELSE scores.val[t]]]

vectorized_duty_boost(scores, config) ==
    [keys |-> scores.keys,
     val |-> [t \in Range(scores.keys) |->
                IF DictHas(config.sub_traits, t)
                   /\ config.sub_traits.val[t].MidLevel = "Duty"
                THEN clamp_score(FloatMulTrunc115(scores.val[t]))
                ELSE clamp_score(scores.val[t])]]

RECURSIVE core_boost_loop(_, _)
core_boost_loop(out, k) ==
    IF k > Len(CORE_TRAITS) THEN out
    ELSE LET trait == CORE_TRAITS[k]
         IN  core_boost_loop(
                 IF DictHas(out, trait)
                 THEN DictSet(out, trait,
                          clamp_score(FloatMulTrunc(out.val[trait], CORE_TRAIT_BOOST)))
                 ELSE out,
                 k + 1)

vectorized_core_boost_twice(scores) == core_boost_loop(core_boost_loop(scores, 1), 1)
vectorized_core_boost(scores) == core_boost_loop(scores, 1)

\* ------------------------------------------------------ interaction matrix
\* _build_interaction_matrix, in hundredths: np.ones, then the overrides (the
\* three tests of the loop body exclude one another).
NeutralWeight == 10 * 10
\* The matrix with every override written in both directions.
build_interaction_matrix_symmetric(sub_traits) ==
    [i \in 1..Len(sub_traits) |-> [j \in 1..Len(sub_traits) |->
        LET a == sub_traits[i]
            b == sub_traits[j]
        IN  IF {a, b} = {"KS", "CPv"} THEN 0 - 35
            ELSE IF {a, b} = {"TR", "NC"} THEN 0 - 40
            ELSE IF {a, b} = {"RE", "ES"} THEN 0 - 50
            ELSE NeutralWeight]]

build_interaction_matrix(sub_traits) ==
    [i \in 1..Len(sub_traits) |-> [j \in 1..Len(sub_traits) |->
        LET a == sub_traits[i]
            b == sub_traits[j]
        IN  IF a = "KS" /\ b = "CPv" THEN 0 - 35
            ELSE IF a = "TR" /\ b = "NC" THEN 0 - 40
            ELSE IF a = "RE" /\ b = "ES" THEN 0 - 50
            ELSE NeutralWeight]]

\* np.argwhere: the index pairs of the TRUE cells, row by row.
RECURSIVE ArgWhere(_, _, _)
ArgWhere(mask, n, i) ==
    IF i > n THEN <<>>
    ELSE LET Hit(c) == mask[c[1]][c[2]]
         IN  SelectSeq([j \in 1..n |-> <<i, j>>], Hit) \o ArgWhere(mask, n, i + 1)

vectorized_conflict_detection_ge(sub_traits, scores, config) ==
    LET n == Len(sub_traits)
        score_vec == [i \in 1..n |-> DictGet(scores, sub_traits[i], NEUTRAL_SCORE)]
        inter_mat == build_interaction_matrix(sub_traits)
        conflict_mask == [i \in 1..n |-> [j \in 1..n |->
                            inter_mat[i][j] < config.resolution_config.conflict_threshold
                            /\ Abs(score_vec[i] - score_vec[j])
                                   >= config.resolution_config.score_diff_threshold]]
    IN  ArgWhere(conflict_mask, n, 1)

vectorized_conflict_detection(sub_traits, scores, config) ==
    LET n == Len(sub_traits)
        score_vec == [i \in 1..n |-> DictGet(scores, sub_traits[i], NEUTRAL_SCORE)]
        inter_mat == build_interaction_matrix(sub_traits)
        diff_mat == [i \in 1..n |-> [j \in 1..n |-> Abs(score_vec[i] - score_vec[j])]]
        thresh_inter == config.resolution_config.conflict_threshold
        score_diff_thresh == config.resolution_config.score_diff_threshold
        conflict_mask == [i \in 1..n |-> [j \in 1..n |->
                            inter_mat[i][j] < thresh_inter
                            /\ diff_mat[i][j] > score_diff_thresh]]
    IN  ArgWhere(conflict_mask, n, 1)

\* ---------------------------------------------------------- temporal decay
\* np.exp(-0.1 * t) in millionths, by its Taylor series (the terms of
\* (t/10)^k / k!, until they vanish).
ExpOne == 1000 * 1000
RECURSIVE ExpSeries(_, _, _, _)
ExpSeries(t, k, term, acc) ==
    IF term = 0 THEN acc
    ELSE ExpSeries(t, k + 1, (term * t) \div (10 * (k + 1)),
                   IF k % 2 = 0 THEN acc + term ELSE acc - term)
ExpNegTenth(t) == ExpSeries(t, 0, ExpOne, 0)

\* ln 2 and ln 100 in millionths.
Ln2 == 693147
Ln100 == 4605170
\* The last factor with 0.1 * factor < 54 ln 2: from the next one on
\* np.exp(-0.1 * factor) is below 2^-54 and 1.0 - np.exp(...) is 1.0 in
\* binary64.
LastDecaying == (54 * Ln2) \div 100000

\* int(100 * (1.0 - np.exp(-0.1 * factor))): 100 once the difference rounds
\* to 1.0, 99 while the exponential is below 0.01 (0.1 * factor > ln 100),
\* by the series before.
decay_function(factor) ==
    IF factor > LastDecaying THEN 100
    ELSE IF factor * 100000 > Ln100 THEN 99
    ELSE TruncDiv(100 * (ExpOne - ExpNegTenth(factor)), ExpOne)

\* The three replicas of tmr_decay; upset: random.random() < 0.01.
tmr_replicas(factor, upset) ==
    <<decay_function(factor),
      IF upset THEN TruncDiv(decay_function(factor) * 5, 10) ELSE decay_function(factor),
      decay_function(factor)>>

\* The vote of tmr_decay.
tmr_vote_fallback_last(r1, r2, r3) ==
    IF r1 = r2 \/ r1 = r3 THEN r1
    ELSE IF r2 = r3 THEN r2
    ELSE r3
tmr_vote(r1, r2, r3) ==
    IF r1 = r2 \/ r1 = r3 THEN r1
    ELSE IF r2 = r3 THEN r2
    ELSE r1

tmr_decay_second_replica(factor, upset) == tmr_replicas(factor, upset)[2]
tmr_decay(factor, upset) ==
    LET r == tmr_replicas(factor, upset)
    IN  tmr_vote(r[1], r[2], r[3])

\* tmr_decay of cocorels_v3_deepseek.py; upset: random.random() < 0.1.
deepseek_tmr_results(factor, upset) ==
    <<decay_function(factor),
      IF upset THEN TruncDiv(decay_function(factor) * 5, 10) ELSE decay_function(factor),
      decay_function(factor)>>
\* results.count(x)
Count(results, x) == Cardinality({i \in 1..Len(results) : results[i] = x})
\* max(set(results), key=results.count): a value of the highest count, the
\* first in the iteration order of the set among several; the set of the
\* values it can be.
deepseek_vote(results) ==
    {x \in Range(results) : \A y \in Range(results) : Count(results, x) >= Count(results, y)}

\* ------------------------------------------------------- conflict resolver
\* An adjustment factor f stands for f / FactorOne.
FactorOne == 1000 * 1000
\* The momentum m stands for m / MomOne: every reachable value is a multiple
\* of 1 / MomOne while no more than MaxDilemmas + 2 cycles have run.
MomOne == 20 * Pow10(MaxDilemmas + 2)

NewResolver == [adjustment_factors |-> EmptyDict, ethical_momentum |-> MomOne, time_step |-> 0]

\* The loop of _apply_temporal_decay over the adjustment factors.
decay_factors_no_snap(factors, decay_factor) ==
    [keys |-> factors.keys,
     val |-> [k \in Range(factors.keys) |->
                TruncDiv(factors.val[k] * decay_factor, 100)]]
decay_factors(factors, decay_factor) ==
    [keys |-> factors.keys,
     val |-> [k \in Range(factors.keys) |->
                LET f == TruncDiv(factors.val[k] * decay_factor, 100)
                IN  IF Abs(f - FactorOne) < FactorOne \div 100 THEN FactorOne ELSE f]]

\* momentum * 0.9, floored at 0.
damp_momentum_up(m) == Max(0, TruncDiv(m * 11, 10))
damp_momentum(m) == Max(0, TruncDiv(m * 9, 10))

\* momentum - 0.05 * len(conflicts), floored at 0.
reduce_momentum_once(m, conflicts) ==
    Max(0, m - (MomOne \div 20) * Min(1, Len(conflicts)))
reduce_momentum(m, conflicts) == Max(0, m - (MomOne \div 20) * Len(conflicts))

\* _apply_temporal_decay with the decay taken from time_step before its
\* increment.
apply_temporal_decay_stale(rs, upset) ==
    LET ts == rs.time_step + 1
        decay_val == tmr_decay(rs.time_step, upset)
        decay_factor == Max(0, Min(100, decay_val))
    IN  [adjustment_factors |-> decay_factors(rs.adjustment_factors, decay_factor),
         ethical_momentum |-> damp_momentum(rs.ethical_momentum),
         time_step |-> ts]

apply_temporal_decay(rs, upset) ==
    LET ts == rs.time_step + 1
        decay_val == tmr_decay(ts, upset)
        decay_factor == Max(0, Min(100, decay_val))
    IN  [adjustment_factors |-> decay_factors(rs.adjustment_factors, decay_factor),
         ethical_momentum |-> damp_momentum(rs.ethical_momentum),
         time_step |-> ts]

\* One pass of the loop of vectorized_resolution, for the pair c.
resolve_pair_first_only(st, c, sub) ==
    LET a == sub[c[1]]
        b == sub[c[2]]
        f1 == DictSet(st.factors, a,
                      TruncDiv(DictGet(st.factors, a, FactorOne) * 102, 100))
    IN  [resolved |-> DictSet(st.resolved, a,
                              clamp_score(FloatMulTrunc(st.resolved.val[a], 95))),
         factors |-> DictSet(f1, b, TruncDiv(DictGet(f1, b, FactorOne) * 98, 100))]

\* The pass with the two bumps exchanged.
resolve_pair_swapped(st, c, sub) ==
    LET a == sub[c[1]]
        b == sub[c[2]]
        r1 == DictSet(st.resolved, a, clamp_score(FloatMulTrunc(st.resolved.val[a], 95)))
        r2 == DictSet(r1, b, clamp_score(FloatMulTrunc(r1.val[b], 95)))
        f1 == DictSet(st.factors, a,
                      TruncDiv(DictGet(st.factors, a, FactorOne) * 98, 100))
        f2 == DictSet(f1, b, TruncDiv(DictGet(f1, b, FactorOne) * 102, 100))
    IN  [resolved |-> r2, factors |-> f2]

resolve_pair(st, c, sub) ==
    LET a == sub[c[1]]
        b == sub[c[2]]
        r1 == DictSet(st.resolved, a, clamp_score(FloatMulTrunc(st.resolved.val[a], 95)))
        r2 == DictSet(r1, b, clamp_score(FloatMulTrunc(r1.val[b], 95)))
        f1 == DictSet(st.factors, a,
                      TruncDiv(DictGet(st.factors, a, FactorOne) * 102, 100))
        f2 == DictSet(f1, b, TruncDiv(DictGet(f1, b, FactorOne) * 98, 100))
    IN  [resolved |-> r2, factors |-> f2]

RECURSIVE resolution_loop(_, _, _, _)
resolution_loop(st, conflicts, sub, k) ==
    IF k > Len(conflicts) THEN st
    ELSE resolution_loop(resolve_pair(st, conflicts[k], sub), conflicts, sub, k + 1)

\* [resolved, factors]
vectorized_resolution(factors, conflicts, scores) ==
    resolution_loop([resolved |-> scores, factors |-> factors], conflicts, scores.keys, 1)

\* int(score * adj) for a score in 0..SCORE_MAX, without leaving 32 bits.
FactorMulTrunc(score, adj) ==
    LET hi == score * (adj \div 1000)
        lo == score * (adj % 1000)
    IN  (hi \div 1000) + (((hi % 1000) * 1000 + lo) \div FactorOne)

\* The scalar fallback of resolve: every key of the adjustment factors.
RECURSIVE scalar_resolution(_, _, _)
scalar_resolution(factors, resolved, k) ==
    IF k > Len(factors.keys) THEN resolved
    ELSE LET key == factors.keys[k]
         IN  scalar_resolution(factors,
                 DictSet(resolved, key,
                     clamp_score(FactorMulTrunc(DictGet(resolved, key, NEUTRAL_SCORE),
                                                factors.val[key]))),
                 k + 1)

conflict_entries(conflicts, scores) ==
    [k \in 1..Len(conflicts) |->
        [trait1 |-> scores.keys[conflicts[k][1]],
         trait2 |-> scores.keys[conflicts[k][2]],
         note |-> "resolved vectorized"]]

\* resolve with the adjustment factors applied to the scores whether or not
\* there is a conflict.
resolve_always_adjusts(rs, conflicts, scores, upset) ==
    LET d == apply_temporal_decay(rs, upset)
        m == reduce_momentum(d.ethical_momentum, conflicts)
        vec == vectorized_resolution(d.adjustment_factors, conflicts, scores)
    IN  IF Len(conflicts) = 0
        THEN [rs |-> [d EXCEPT !.ethical_momentum = m],
              scores |-> scalar_resolution(d.adjustment_factors, scores, 1),
              conflict_list |-> <<>>]
        ELSE [rs |-> [adjustment_factors |-> vec.factors, ethical_momentum |-> m,
                      time_step |-> d.time_step],
              scores |-> vec.resolved,
              conflict_list |-> conflict_entries(conflicts, scores)]

\* resolve, has_vector_unit() returning vector_unit: [rs, scores, conflict_list]
resolve_on(vector_unit, rs, conflicts, scores, upset) ==
    LET d == apply_temporal_decay(rs, upset)
        m == reduce_momentum(d.ethical_momentum, conflicts)
        vec == vectorized_resolution(d.adjustment_factors, conflicts, scores)
    IN  IF Len(conflicts) = 0
        THEN [rs |-> [d EXCEPT !.ethical_momentum = m],
              scores |-> scores, conflict_list |-> <<>>]
        ELSE IF vector_unit
        THEN [rs |-> [adjustment_factors |-> vec.factors, ethical_momentum |-> m,
                      time_step |-> d.time_step],
              scores |-> vec.resolved,
              conflict_list |-> conflict_entries(conflicts, scores)]
        ELSE [rs |-> [d EXCEPT !.ethical_momentum = m],
              scores |-> scalar_resolution(d.adjustment_factors, scores, 1),
              conflict_list |-> conflict_entries(conflicts, scores)]

\* resolve: [rs, scores, conflict_list]
resolve(rs, conflicts, scores, upset) ==
    resolve_on(HAS_VECTOR_UNIT, rs, conflicts, scores, upset)

\* -------------------------------------------------------------- aggregator
RECURSIVE SumOver(_, _, _)
SumOver(f(_), s, k) == IF k > Len(s) THEN 0 ELSE f(s[k]) + SumOver(f, s, k + 1)

\* Numbers beyond 32 bits are pairs [hi, lo] standing for hi * 10^4 + lo.
Limb == 100 * 100
Norm(hi, lo) == [hi |-> hi + ((lo - (lo % Limb)) \div Limb), lo |-> lo % Limb]
\* x * x for 0 <= x <= 12 * SCORE_MAX.
Square(x) ==
    LET a == x \div 100
        b == x % 100
    IN  Norm(a * a, 200 * a * b + b * b)

\* mcda_score without its guard for the empty map.
mcda_score_unguarded(scores) ==
    LET Val(t) == scores.val[t]
    IN  [num |-> SumOver(Val, scores.keys, 1), den |-> Len(scores.keys) * SCORE_MAX]

\* mcda_score with the mean left as it is, not divided by SCORE_MAX.
mcda_score_mean_only(scores) ==
    IF Len(scores.keys) = 0 THEN [num |-> 0, den |-> 1]
    ELSE LET Val(t) == scores.val[t]
         IN  [num |-> SumOver(Val, scores.keys, 1), den |-> Len(scores.keys)]

\* mcda_score: the rational num / den.
mcda_score(scores) ==
    IF Len(scores.keys) = 0 THEN [num |-> 0, den |-> 1]
    ELSE LET Val(t) == scores.val[t]
         IN  [num |-> SumOver(Val, scores.keys, 1), den |-> Len(scores.keys) * SCORE_MAX]

\* balance_score: np.std, given by its square, the population variance
\* (n * sum(x^2) - sum(x)^2) / n^2, as [num (a pair), den].
balance_score(scores) ==
    IF Len(scores.keys) = 0 THEN [num |-> Norm(0, 0), den |-> 1]
    ELSE LET n == Len(scores.keys)
             Val(t) == scores.val[t]
             SqHi(t) == Square(scores.val[t]).hi
             SqLo(t) == Square(scores.val[t]).lo
             sq == Norm(SumOver(SqHi, scores.keys, 1), SumOver(SqLo, scores.keys, 1))
             ss == Square(SumOver(Val, scores.keys, 1))
         IN  [num |-> Norm(n * sq.hi - ss.hi, n * sq.lo - ss.lo), den |-> n * n]

\* A stand-in for the SHA-256 based signature: a tag on what is signed.
generate_query_signature(query, context) == <<"sha256", query, context>>

\* ----------------------------------------------------------- configuration
NoConfig ==
    [loaded |-> FALSE, sub_traits |-> EmptyDict,
     resolution_config |-> [conflict_threshold |-> 0, score_diff_threshold |-> 0]]

\* guard_lojban_integrity: the exception of the first entry that fails.
RECURSIVE guard_lojban_integrity_no_strip(_, _)
guard_lojban_integrity_no_strip(sub_traits, k) ==
    IF k > Len(sub_traits.keys) THEN NoExc
    ELSE LET tc == sub_traits.keys[k]
             p == sub_traits.val[tc].LojbanPredicate
         IN  IF ~p.present \/ ~p.isstr
             THEN Exc("ValueError", <<"Missing LojbanPredicate", tc>>)
             ELSE IF p.text = <<>>
             THEN Exc("ValueError", <<"Empty LojbanPredicate", tc>>)
             ELSE guard_lojban_integrity_no_strip(sub_traits, k + 1)

RECURSIVE guard_lojban_integrity(_, _)
guard_lojban_integrity(sub_traits, k) ==
    IF k > Len(sub_traits.keys) THEN NoExc
    ELSE LET tc == sub_traits.keys[k]
             p == sub_traits.val[tc].LojbanPredicate
         IN  IF ~p.present \/ ~p.isstr
             THEN Exc("ValueError", <<"Missing LojbanPredicate", tc>>)
             ELSE IF Strip(p.text) = <<>>
             THEN Exc("ValueError", <<"Empty LojbanPredicate", tc>>)
             ELSE guard_lojban_integrity(sub_traits, k + 1)

\* load_cocorels_config, given the trait table it reads: [exc, config].
load_cocorels_config(table) ==
    LET config == [loaded |-> TRUE, sub_traits |-> table,
                   resolution_config |->
                       [conflict_threshold |-> 50, score_diff_threshold |-> 7000]]
        e == guard_lojban_integrity(table, 1)
    IN  [exc |-> e, config |-> IF e = NoExc THEN config ELSE NoConfig]

\* ------------------------------------------------------------------ inputs
TaskTypes == {"duty", "wisdom"}
Contexts == {"ctx"}

\* The decimal text of n >= 0.
RECURSIVE Txt(_)
Txt(n) == IF n < 10 THEN <<DigitChars[n + 1]>>
          ELSE Txt(n \div 10) \o <<DigitChars[(n % 10) + 1]>>

\* The responses of one assessment: base for every trait but those of ov.
Responses(base, ov) ==
    [t \in Range(TraitOrder) |-> IF t \in DOMAIN ov THEN ov[t] ELSE StrResp(Txt(base))]

\* No pair conflicts: RE and ES differ by exactly the threshold, and NC is
\* within the threshold of TR only before the core boost.
RunQuiet ==
    [has_query |-> TRUE,
     resp |-> Responses(15000,
                ("RE" :> StrResp(Txt(1000))) @@ ("ES" :> StrResp(Txt(8000)))
                @@ ("TR" :> StrResp(Txt(0))) @@ ("NC" :> StrResp(Txt(6900)))
                @@ ("TC" :> StrResp(Txt(100))) @@ ("CA" :> StrResp(<<" ", "2", "0", "\n">>))
                @@ ("IL" :> StrResp(Txt(27000))) @@ ("DI" :> StrResp(Txt(29000))))]
\* RE and ES conflict; TR and NC differ by exactly the threshold.
RunScenario ==
    [has_query |-> TRUE,
     resp |-> Responses(5000,
                ("RE" :> StrResp(Txt(1000))) @@ ("ES" :> StrResp(Txt(9000)))
                @@ ("TR" :> StrResp(Txt(7000))) @@ ("NC" :> StrResp(Txt(0)))
                @@ ("DP" :> StrResp(<<"+", "5", "2", "0", "0">>)))]
\* The three pairs conflict; responses out of range.
RunAll ==
    [has_query |-> TRUE,
     resp |-> Responses(15000,
                ("RE" :> StrResp(Txt(45000))) @@ ("ES" :> StrResp(<<"-", "5">>))
                @@ ("TR" :> StrResp(Txt(7001))) @@ ("NC" :> StrResp(Txt(0)))
                @@ ("KS" :> StrResp(Txt(30000)))
                @@ ("CPv" :> StrResp(<<"1", "_", "0", "0", "0">>)))]
\* Responses that are no integer.
RunJunk ==
    [has_query |-> TRUE,
     resp |-> Responses(15000,
                ("TC" :> StrResp(<<"1", "2", ".", "5">>)) @@ ("CA" :> NonStrResp)
                @@ ("IL" :> StrResp(<<>>)) @@ ("DP" :> StrResp(<<"1", "_", "_", "0">>)))]
\* The call raises.
RunRaise ==
    [has_query |-> TRUE,
     resp |-> Responses(15000, "RE" :> RaiseResp(Exc("RuntimeError", <<"llm">>)))]
RunRaiseValue ==
    [has_query |-> TRUE,
     resp |-> Responses(15000, "DP" :> RaiseResp(Exc("ValueError", <<"llm">>)))]
\* llm_integration has no query attribute.
RunNoQuery == [has_query |-> FALSE, resp |-> Responses(0, <<>>)]

\* No pair conflicts: every score is 5000 but that of DP, 5200.
RunCalm ==
    [has_query |-> TRUE, resp |-> Responses(5000, "DP" :> StrResp(Txt(5200)))]

LlmRuns ==
    {RunQuiet, RunScenario, RunAll, RunJunk, RunRaise, RunRaiseValue, RunNoQuery, RunCalm}

\* The trait table with the predicate of trait t replaced.
WithPredicate(table, t, p) ==
    [table EXCEPT !.val[t].LojbanPredicate = p]
MissingPredicate == [present |-> FALSE, isstr |-> FALSE, text |-> <<>>]
NonStringPredicate == [present |-> TRUE, isstr |-> FALSE, text |-> <<>>]

TraitTables ==
    {sub_traits_jbo,
     WithPredicate(sub_traits_jbo, "TC", MissingPredicate),
     WithPredicate(sub_traits_jbo, "NC", NonStringPredicate),
     WithPredicate(sub_traits_jbo, "ES", Anchor(<<>>)),
     WithPredicate(sub_traits_jbo, "DI", Anchor(<<" ", "\t">>)),
     WithPredicate(WithPredicate(sub_traits_jbo, "KS", MissingPredicate),
                   "CS", Anchor(<<" ">>))}

\* ------------------------------------------------------------------- state
VARIABLES
    \* TaskScheduler and its EthicalProcessor's ConflictResolver
    task_queue, adjustment_factors, ethical_momentum, time_step, secure_boot,
    \* the configuration the caller holds
    config,
    \* the running process_next / process_dilemma call
    pc, cur, scores, conflicts, conflict_records, metrics,
    \* what the last call on the scheduler returned or raised
    result, raised,
    \* the running process_ethical_dilemma call
    entry_pc, entry_args, entry_out,
    \* history: the dilemmas enqueued and handed to the processor, the stages
    \* run for the current dilemma, and the scores given to detection
    enq_log, handed_log, stage_log, assessed, detect_in,
    \* two threads calling resolve on one resolver
    w_pc, w_tmp, w_conflicts,
    \* the TaskScheduler of cocorels_v3_deepseek.py: its queue, what its last
    \* process_next returned or raised, and the tasks added and handed over
    ds_queue, ds_out, ds_added, ds_handed,
    \* one function called on its own: which, its argument, and what its
    \* successive calls returned
    fn_op, fn_arg, fn_ret

resolver_vars == <<adjustment_factors, ethical_momentum, time_step>>
frame_vars == <<pc, cur, scores, conflicts, conflict_records, metrics>>
entry_vars == <<entry_pc, entry_args, entry_out>>
hist_vars == <<enq_log, handed_log, stage_log, assessed, detect_in>>
worker_vars == <<w_pc, w_tmp, w_conflicts>>
variant_vars == <<ds_queue, ds_out, ds_added, ds_handed>>
pure_vars == <<fn_op, fn_arg, fn_ret>>
vars == <<task_queue, resolver_vars, secure_boot, config, frame_vars, result, raised,
          entry_vars, hist_vars, worker_vars, variant_vars, pure_vars>>

Dilemma(query, context, task_type) ==
    [query |-> query, context |-> context, task_type |-> task_type]
NoDilemma == Dilemma(0, None, None)
NoMetrics == [mcda_score |-> [num |-> 0, den |-> 1],
              balance_score |-> [num |-> Norm(0, 0), den |-> 1]]

\* What a call returns: nothing yet, None, a Result or the error result.
Unset ==
    [kind |-> "unset", signature |-> <<>>, scores |-> EmptyDict, conflicts |-> <<>>,
     mcda_score |-> NoMetrics.mcda_score, balance_score |-> NoMetrics.balance_score,
     hardware_compatible |-> FALSE, error |-> <<>>]
ReturnedNone == [Unset EXCEPT !.kind = "None"]
ErrorResult(e) == [Unset EXCEPT !.kind = "error", !.error = e.msg]

Workers == {1, 2}

\* Everything but the momentum of the resolver.
InitButMomentum ==
    /\ task_queue = <<>>
    /\ adjustment_factors = NewResolver.adjustment_factors
    /\ time_step = NewResolver.time_step
    /\ secure_boot = TRUE
    /\ config = NoConfig
    /\ pc = "idle"
    /\ cur = NoDilemma
    /\ scores = EmptyDict
    /\ conflicts = <<>>
    /\ conflict_records = <<>>
    /\ metrics = NoMetrics
    /\ result = Unset
    /\ raised = NoExc
    /\ entry_pc = "none"
    /\ entry_args = NoDilemma
    /\ entry_out = Unset
    /\ enq_log = <<>>
    /\ handed_log = <<>>
    /\ stage_log = <<>>
    /\ assessed = EmptyDict
    /\ detect_in = EmptyDict
    /\ w_pc = [w \in Workers |-> "idle"]
    /\ w_tmp = [w \in Workers |-> 0]
    /\ w_conflicts = [w \in Workers |-> <<>>]
    /\ ds_queue = <<>>
    /\ ds_out = "unset"
    /\ ds_added = <<>>
    /\ ds_handed = <<>>

InitProgram ==
    /\ InitButMomentum
    /\ ethical_momentum = NewResolver.ethical_momentum

Init ==
    /\ InitProgram
    /\ fn_op = "none"
    /\ fn_arg = 0
    /\ fn_ret = <<>>

\* ------------------------------------------------------------ TaskScheduler
\* add_dilemma_to_queue
add_dilemma_to_queue(query, context, task_type) ==
    /\ task_queue' = Append(task_queue, Dilemma(query, context, task_type))
    /\ enq_log' = Append(enq_log, Dilemma(query, context, task_type))

\* self.task_queue.pop(0): [item, rest]
queue_pop(queue) == [item |-> Head(queue), rest |-> Tail(queue)]

\* process_next with an empty queue counted as a resolve cycle.
process_next_empty_ticks ==
    /\ pc = "idle"
    /\ config.loaded
    /\ raised' = NoExc
    /\ IF task_queue = <<>>
       THEN /\ result' = ReturnedNone
            /\ time_step' = time_step + 1
            /\ UNCHANGED <<task_queue, frame_vars, hist_vars, adjustment_factors,
                           ethical_momentum>>
       ELSE /\ result' = Unset
            /\ cur' = queue_pop(task_queue).item
            /\ task_queue' = queue_pop(task_queue).rest
            /\ handed_log' = Append(handed_log, queue_pop(task_queue).item)
            /\ pc' = "assess"
            /\ stage_log' = <<>>
            /\ assessed' = EmptyDict
            /\ detect_in' = EmptyDict
            /\ UNCHANGED <<scores, conflicts, conflict_records, metrics, enq_log,
                           resolver_vars>>
    /\ UNCHANGED <<secure_boot, config, worker_vars, variant_vars, pure_vars>>

\* process_next up to the call of process_dilemma: None on an empty queue,
\* else the oldest entry is popped and handed to the processor.
process_next ==
    /\ pc = "idle"
    /\ config.loaded
    /\ raised' = NoExc
    /\ IF task_queue = <<>>
       THEN /\ result' = ReturnedNone
            /\ UNCHANGED <<task_queue, frame_vars, hist_vars>>
       ELSE /\ result' = Unset
            /\ cur' = queue_pop(task_queue).item
            /\ task_queue' = queue_pop(task_queue).rest
            /\ handed_log' = Append(handed_log, queue_pop(task_queue).item)
            /\ pc' = "assess"
            /\ stage_log' = <<>>
            /\ assessed' = EmptyDict
            /\ detect_in' = EmptyDict
            /\ UNCHANGED <<scores, conflicts, conflict_records, metrics, enq_log>>
    /\ UNCHANGED <<resolver_vars, secure_boot, config, worker_vars, variant_vars, pure_vars>>

\* ------------------------------------ EthicalProcessor.process_dilemma
\* The statements of process_dilemma, in their order.
NextStageCoreFirst(stage) ==
    CASE stage = "assess" -> "duty"
      [] stage = "duty" -> "core"
      [] stage = "core" -> "detect"
      [] stage = "detect" -> "resolve"
      [] stage = "resolve" -> "aggregate"
      [] stage = "aggregate" -> "sign"
      [] stage = "sign" -> "idle"

NextStage(stage) ==
    CASE stage = "assess" -> "duty"
      [] stage = "duty" -> "detect"
      [] stage = "detect" -> "resolve"
      [] stage = "resolve" -> "core"
      [] stage = "core" -> "aggregate"
      [] stage = "aggregate" -> "sign"
      [] stage = "sign" -> "idle"

\* What a step of process_dilemma leaves alone.
StepFrame ==
    UNCHANGED <<task_queue, secure_boot, config, entry_vars, enq_log, handed_log,
                worker_vars, variant_vars, pure_vars>>

\* The assessment made inside the resolve cycle, after the increment of
\* time_step.
AssessInsideCycle ==
    /\ pc = "assess"
    /\ \E llm \in LlmRuns :
          LET r == hw_assess_traits(cur.query, llm, config, config.sub_traits.keys)
          IN  IF r.exc # NoExc
              THEN /\ raised' = r.exc
                   /\ pc' = "idle"
                   /\ cur' = NoDilemma
                   /\ UNCHANGED <<scores, assessed, stage_log>>
              ELSE /\ scores' = r.scores
                   /\ assessed' = r.scores
                   /\ stage_log' = Append(stage_log, "assess")
                   /\ pc' = NextStage("assess")
                   /\ UNCHANGED <<raised, cur>>
    /\ time_step' = time_step + 1
    /\ UNCHANGED <<adjustment_factors, ethical_momentum, conflicts, conflict_records, metrics, result, detect_in>>
    /\ StepFrame

\* scores = hw_assess_traits(...); an exception of the assessor leaves
\* process_dilemma and process_next.
Assess ==
    /\ pc = "assess"
    /\ \E llm \in LlmRuns :
          LET r == hw_assess_traits(cur.query, llm, config, config.sub_traits.keys)
          IN  IF r.exc # NoExc
              THEN /\ raised' = r.exc
                   /\ pc' = "idle"
                   /\ cur' = NoDilemma
                   /\ UNCHANGED <<scores, assessed, stage_log>>
              ELSE /\ scores' = r.scores
                   /\ assessed' = r.scores
                   /\ stage_log' = Append(stage_log, "assess")
                   /\ pc' = NextStage("assess")
                   /\ UNCHANGED <<raised, cur>>
    /\ UNCHANGED <<resolver_vars, conflicts, conflict_records, metrics, result, detect_in>>
    /\ StepFrame

\* if task_type == "duty": scores = vectorized_duty_boost(scores, config)
DutyBoost ==
    /\ pc = "duty"
    /\ IF cur.task_type = "duty"
       THEN /\ scores' = vectorized_duty_boost(scores, config)
            /\ stage_log' = Append(stage_log, "duty")
       ELSE UNCHANGED <<scores, stage_log>>
    /\ pc' = NextStage("duty")
    /\ UNCHANGED <<resolver_vars, cur, conflicts, conflict_records, metrics, result,
                   raised, assessed, detect_in>>
    /\ StepFrame

\* conflicts = self.resolver.vectorized_conflict_detection(...)
Detect ==
    /\ pc = "detect"
    /\ conflicts' = vectorized_conflict_detection(config.sub_traits.keys, scores, config)
    /\ detect_in' = scores
    /\ stage_log' = Append(stage_log, "detect")
    /\ pc' = NextStage("detect")
    /\ UNCHANGED <<resolver_vars, cur, scores, conflict_records, metrics, result,
                   raised, assessed>>
    /\ StepFrame

\* scores, conflict_records = self.resolver.resolve(...)
Resolve ==
    /\ pc = "resolve"
    /\ \E upset \in BOOLEAN :
          LET r == resolve([adjustment_factors |-> adjustment_factors,
                            ethical_momentum |-> ethical_momentum,
                            time_step |-> time_step],
                           conflicts, scores, upset)
          IN  /\ adjustment_factors' = r.rs.adjustment_factors
              /\ ethical_momentum' = r.rs.ethical_momentum
              /\ time_step' = r.rs.time_step
              /\ scores' = r.scores
              /\ conflict_records' = r.conflict_list
    /\ stage_log' = Append(stage_log, "resolve")
    /\ pc' = NextStage("resolve")
    /\ UNCHANGED <<cur, conflicts, metrics, result, raised, assessed, detect_in>>
    /\ StepFrame

\* scores = vectorized_core_boost(scores)
CoreBoost ==
    /\ pc = "core"
    /\ scores' = vectorized_core_boost(scores)
    /\ stage_log' = Append(stage_log, "core")
    /\ pc' = NextStage("core")
    /\ UNCHANGED <<resolver_vars, cur, conflicts, conflict_records, metrics, result,
                   raised, assessed, detect_in>>
    /\ StepFrame

\* final_mcda = mcda_score(...); balance = balance_score(scores)
Aggregate ==
    /\ pc = "aggregate"
    /\ metrics' = [mcda_score |-> mcda_score(scores), balance_score |-> balance_score(scores)]
    /\ stage_log' = Append(stage_log, "aggregate")
    /\ pc' = NextStage("aggregate")
    /\ UNCHANGED <<resolver_vars, cur, scores, conflicts, conflict_records, result,
                   raised, assessed, detect_in>>
    /\ StepFrame

\* Return with a new resolver for the next dilemma.
ReturnNewResolver ==
    /\ pc = "sign"
    /\ result' = [kind |-> "result",
                  signature |-> generate_query_signature(cur.query, cur.context),
                  scores |-> scores,
                  conflicts |-> conflict_records,
                  mcda_score |-> metrics.mcda_score,
                  balance_score |-> metrics.balance_score,
                  hardware_compatible |-> TRUE,
                  error |-> <<>>]
    /\ stage_log' = Append(stage_log, "sign")
    /\ pc' = NextStage("sign")
    /\ cur' = NoDilemma
    /\ scores' = EmptyDict
    /\ conflicts' = <<>>
    /\ conflict_records' = <<>>
    /\ metrics' = NoMetrics
    /\ adjustment_factors' = NewResolver.adjustment_factors
    /\ ethical_momentum' = NewResolver.ethical_momentum
    /\ time_step' = NewResolver.time_step
    /\ UNCHANGED <<raised, assessed, detect_in>>
    /\ StepFrame

\* return {"signature": generate_query_signature(query, context), ...}
Return ==
    /\ pc = "sign"
    /\ result' = [kind |-> "result",
                  signature |-> generate_query_signature(cur.query, cur.context),
                  scores |-> scores,
                  conflicts |-> conflict_records,
                  mcda_score |-> metrics.mcda_score,
                  balance_score |-> metrics.balance_score,
                  hardware_compatible |-> TRUE,
                  error |-> <<>>]
    /\ stage_log' = Append(stage_log, "sign")
    /\ pc' = NextStage("sign")
    /\ cur' = NoDilemma
    /\ scores' = EmptyDict
    /\ conflicts' = <<>>
    /\ conflict_records' = <<>>
    /\ metrics' = NoMetrics
    /\ UNCHANGED <<resolver_vars, raised, assessed, detect_in>>
    /\ StepFrame

\* ------------------------------------------------ a caller of the scheduler
\* The caller loads the configuration; a failed load raises to it.
LoadConfig ==
    /\ pc = "idle"
    /\ entry_pc = "none"
    /\ ~config.loaded
    /\ \E table \in TraitTables :
          LET r == load_cocorels_config(table)
          IN  /\ config' = r.config
              /\ raised' = r.exc
    /\ UNCHANGED <<task_queue, resolver_vars, secure_boot, frame_vars, result,
                   entry_vars, hist_vars, worker_vars, variant_vars, pure_vars>>

Enqueue ==
    /\ pc = "idle"
    /\ entry_pc = "none"
    /\ Len(enq_log) < MaxDilemmas
    /\ Len(task_queue) < MaxQueue
    /\ \E context \in Contexts, task_type \in TaskTypes :
          add_dilemma_to_queue(Len(enq_log) + 1, context, task_type)
    /\ UNCHANGED <<resolver_vars, secure_boot, config, frame_vars, result, raised,
                   entry_vars, handed_log, stage_log, assessed, detect_in, worker_vars, variant_vars, pure_vars>>

ProcessNext ==
    /\ entry_pc = "none"
    /\ process_next
    /\ UNCHANGED entry_vars

Next ==
    \/ LoadConfig
    \/ Enqueue
    \/ ProcessNext
    \/ Assess
    \/ DutyBoost
    \/ Detect
    \/ Resolve
    \/ CoreBoost
    \/ Aggregate
    \/ Return

Spec == Init /\ [][Next]_vars

\* ------------------------------------------------- process_ethical_dilemma
\* HardwareSecurityModule.verify_integrity, given what the PUF check answers
\* (a placeholder returning True in the source): [exc, secure_boot].
verify_integrity_silent(puf_ok) == [exc |-> NoExc, secure_boot |-> puf_ok]
verify_integrity(puf_ok) ==
    IF puf_ok THEN [exc |-> NoExc, secure_boot |-> TRUE]
    ELSE [exc |-> Exc("SecurityException", <<"Hardware tampering detected.">>),
          secure_boot |-> FALSE]

\* except (SecurityException, ValueError) as e: the error result; any other
\* exception leaves process_ethical_dilemma.
entry_except(e) ==
    IF e.type \in {"SecurityException", "ValueError"} THEN ErrorResult(e)
    ELSE [Unset EXCEPT !.kind = "raised", !.error = <<e.type>>]

\* The call, up to scheduler = TaskScheduler(): a new scheduler, processor
\* and resolver.
EntryCall ==
    /\ entry_pc \in {"none", "returned"}
    /\ pc = "idle"
    /\ \E query \in 1..MaxDilemmas, context \in Contexts, task_type \in TaskTypes :
          entry_args' = Dilemma(query, context, task_type)
    /\ entry_pc' = "verify"
    /\ entry_out' = Unset
    /\ task_queue' = <<>>
    /\ adjustment_factors' = NewResolver.adjustment_factors
    /\ ethical_momentum' = NewResolver.ethical_momentum
    /\ time_step' = NewResolver.time_step
    /\ secure_boot' = TRUE
    /\ config' = NoConfig
    /\ result' = Unset
    /\ raised' = NoExc
    /\ enq_log' = <<>>
    /\ handed_log' = <<>>
    /\ stage_log' = <<>>
    /\ assessed' = EmptyDict
    /\ detect_in' = EmptyDict
    /\ UNCHANGED <<frame_vars, worker_vars, variant_vars, pure_vars>>

\* scheduler.hsm.verify_integrity()
EntryVerify ==
    /\ entry_pc = "verify"
    /\ \E puf_ok \in BOOLEAN :
          LET r == verify_integrity(puf_ok)
          IN  /\ secure_boot' = r.secure_boot
              /\ IF r.exc = NoExc
                 THEN entry_pc' = "load" /\ UNCHANGED entry_out
                 ELSE entry_pc' = "returned" /\ entry_out' = entry_except(r.exc)
    /\ UNCHANGED <<task_queue, resolver_vars, config, frame_vars, result, raised,
                   entry_args, hist_vars, worker_vars, variant_vars, pure_vars>>

\* config = load_cocorels_config(config_path)
EntryLoad ==
    /\ entry_pc = "load"
    /\ \E table \in TraitTables :
          LET r == load_cocorels_config(table)
          IN  IF r.exc = NoExc
              THEN config' = r.config /\ entry_pc' = "enqueue" /\ UNCHANGED entry_out
              ELSE /\ entry_pc' = "returned"
                   /\ entry_out' = entry_except(r.exc)
                   /\ UNCHANGED config
    /\ UNCHANGED <<task_queue, resolver_vars, secure_boot, frame_vars, result, raised,
                   entry_args, hist_vars, worker_vars, variant_vars, pure_vars>>

\* scheduler.add_dilemma_to_queue(query, context, task_type)
EntryEnqueue ==
    /\ entry_pc = "enqueue"
    /\ add_dilemma_to_queue(entry_args.query, entry_args.context, entry_args.task_type)
    /\ entry_pc' = "process"
    /\ UNCHANGED <<resolver_vars, secure_boot, config, frame_vars, result, raised,
                   entry_args, entry_out, handed_log, stage_log, assessed, detect_in,
                   worker_vars, variant_vars, pure_vars>>

\* scheduler.process_next(config), up to the call of process_dilemma
EntryProcess ==
    /\ entry_pc = "process"
    /\ process_next
    /\ entry_pc' = "in_process"
    /\ UNCHANGED <<entry_args, entry_out>>

\* return scheduler.process_next(config), or its exception
EntryReturn ==
    /\ entry_pc = "in_process"
    /\ pc = "idle"
    /\ entry_out' = IF raised = NoExc THEN result ELSE entry_except(raised)
    /\ entry_pc' = "returned"
    /\ UNCHANGED <<task_queue, resolver_vars, secure_boot, config, frame_vars, result,
                   raised, entry_args, hist_vars, worker_vars, variant_vars, pure_vars>>

NextEntry ==
    \/ EntryCall
    \/ EntryVerify
    \/ EntryLoad
    \/ EntryEnqueue
    \/ EntryProcess
    \/ Assess
    \/ DutyBoost
    \/ Detect
    \/ Resolve
    \/ CoreBoost
    \/ Aggregate
    \/ Return
    \/ EntryReturn

SpecEntry == Init /\ [][NextEntry]_vars

\* ------------------------------------- two threads sharing one resolver
\* Each thread calls resolve once, with one of these conflict arrays and the
\* scores of RunScenario.  The steps are the statements of resolve and of
\* _apply_temporal_decay, self.time_step += 1 being a load and a store.
ConflictArgs == {<<>>, << <<7, 8>> >>, << <<7, 8>>, <<9, 5>>, <<11, 10>> >>}
WorkerScores == hw_assess_traits(1, RunScenario, NoConfig, TraitOrder).scores

WorkerFrame ==
    UNCHANGED <<task_queue, secure_boot, config, frame_vars, result, raised,
                entry_vars, hist_vars, variant_vars, pure_vars>>

WCall(w) ==
    /\ w_pc[w] = "idle"
    /\ \E c \in ConflictArgs : w_conflicts' = [w_conflicts EXCEPT ![w] = c]
    /\ w_pc' = [w_pc EXCEPT ![w] = "ts_load"]
    /\ UNCHANGED <<resolver_vars, w_tmp>>
    /\ WorkerFrame

\* self.time_step += 1: the load
WLoadTs(w) ==
    /\ w_pc[w] = "ts_load"
    /\ w_tmp' = [w_tmp EXCEPT ![w] = time_step]
    /\ w_pc' = [w_pc EXCEPT ![w] = "ts_store"]
    /\ UNCHANGED <<resolver_vars, w_conflicts>>
    /\ WorkerFrame

\* self.time_step += 1: the store
WStoreTs(w) ==
    /\ w_pc[w] = "ts_store"
    /\ time_step' = w_tmp[w] + 1
    /\ w_pc' = [w_pc EXCEPT ![w] = "decay"]
    /\ UNCHANGED <<adjustment_factors, ethical_momentum, w_tmp, w_conflicts>>
    /\ WorkerFrame

\* decay_val = tmr_decay(self.time_step) and the loop over the factors
WDecay(w) ==
    /\ w_pc[w] = "decay"
    /\ \E upset \in BOOLEAN :
          adjustment_factors' =
              decay_factors(adjustment_factors,
                            Max(0, Min(100, tmr_decay(time_step, upset))))
    /\ w_pc' = [w_pc EXCEPT ![w] = "damp"]
    /\ UNCHANGED <<ethical_momentum, time_step, w_tmp, w_conflicts>>
    /\ WorkerFrame

\* self.ethical_momentum = max(0.0, self.ethical_momentum * 0.9)
WDamp(w) ==
    /\ w_pc[w] = "damp"
    /\ ethical_momentum' = damp_momentum(ethical_momentum)
    /\ w_pc' = [w_pc EXCEPT ![w] = "reduce"]
    /\ UNCHANGED <<adjustment_factors, time_step, w_tmp, w_conflicts>>
    /\ WorkerFrame

\* self.ethical_momentum = max(0.0, self.ethical_momentum - 0.05 * len(conflicts))
WReduce(w) ==
    /\ w_pc[w] = "reduce"
    /\ ethical_momentum' = reduce_momentum(ethical_momentum, w_conflicts[w])
    /\ w_pc' = [w_pc EXCEPT ![w] = "resolution"]
    /\ UNCHANGED <<adjustment_factors, time_step, w_tmp, w_conflicts>>
    /\ WorkerFrame

\* if conflicts.size: resolved_scores = self.vectorized_resolution(...)
WResolution(w) ==
    /\ w_pc[w] = "resolution"
    /\ adjustment_factors' =
          IF Len(w_conflicts[w]) = 0 THEN adjustment_factors
          ELSE vectorized_resolution(adjustment_factors, w_conflicts[w], WorkerScores).factors
    /\ w_pc' = [w_pc EXCEPT ![w] = "done"]
    /\ UNCHANGED <<ethical_momentum, time_step, w_tmp, w_conflicts>>
    /\ WorkerFrame

NextShared ==
    \E w \in Workers :
        \/ WCall(w)
        \/ WLoadTs(w)
        \/ WStoreTs(w)
        \/ WDecay(w)
        \/ WDamp(w)
        \/ WReduce(w)
        \/ WResolution(w)

SpecShared == Init /\ [][NextShared]_vars

\* ------------------------- the TaskScheduler of cocorels_v3_deepseek.py
\* quantum_safe_sign(query + json.dumps(context)): a digest of its argument.
quantum_safe_sign(data) == <<"sha3_256", data, "quantum_safe_salt">>

\* The task add_task builds.
deepseek_task(query, context, task_type) ==
    [query |-> query, context |-> context, task_type |-> task_type,
     signature |-> quantum_safe_sign(<<query, context>>)]

\* The parameters of EthicalProcessor.process_dilemma, none with a default.
deepseek_process_dilemma_params == {"query", "context", "task_type", "config"}

\* A call by keywords binds iff every keyword names a parameter and every
\* parameter without a default is given; otherwise it raises TypeError and
\* the body does not run.
call_binds(params, keywords) == keywords \subseteq params /\ params \subseteq keywords

\* add_task
DeepseekAddTask ==
    /\ Len(ds_added) < MaxDilemmas
    /\ Len(ds_queue) < MaxQueue
    /\ \E query \in 1..MaxDilemmas, context \in Contexts, task_type \in TaskTypes :
          /\ ds_queue' = Append(ds_queue, deepseek_task(query, context, task_type))
          /\ ds_added' = Append(ds_added, deepseek_task(query, context, task_type))
    /\ UNCHANGED <<ds_out, ds_handed>>
    /\ UNCHANGED <<task_queue, resolver_vars, secure_boot, config, frame_vars, result,
                   raised, entry_vars, hist_vars, worker_vars, pure_vars>>

\* process_next: None on an empty queue; else task = self.queue.pop(0) and
\* process_dilemma(**task, config=config).
DeepseekProcessNext ==
    /\ IF ds_queue = <<>>
       THEN /\ ds_out' = "None"
            /\ UNCHANGED <<ds_queue, ds_handed>>
       ELSE LET task == queue_pop(ds_queue).item
            IN  /\ ds_queue' = queue_pop(ds_queue).rest
                /\ IF call_binds(deepseek_process_dilemma_params,
                                 (DOMAIN task) \cup {"config"})
                   THEN /\ ds_handed' = Append(ds_handed, task)
                        /\ ds_out' = "result"
                   ELSE /\ ds_out' = "TypeError"
                        /\ UNCHANGED ds_handed
    /\ UNCHANGED ds_added
    /\ UNCHANGED <<task_queue, resolver_vars, secure_boot, config, frame_vars, result,
                   raised, entry_vars, hist_vars, worker_vars, pure_vars>>

NextDeepseek ==
    \/ DeepseekAddTask
    \/ DeepseekProcessNext

SpecDeepseek == Init /\ [][NextDeepseek]_vars

\* ------------------------------------------- functions called on their own
\* The arguments a function is called with.
MaxFactor == 12
MaxReplica == 4
MaxOver == 3
ClampInputs ==
    (-MaxOver..MaxOver) \cup ((SCORE_MAX - MaxOver)..(SCORE_MAX + MaxOver))
        \cup {NEUTRAL_SCORE, -SCORE_MAX, 2 * SCORE_MAX}
Factors == 0..MaxFactor
Replicas == 0..MaxReplica
\* Score maps: one score for every trait, and the scores assessed in a run.
UniformScores(v) == [keys |-> TraitOrder, val |-> [t \in Range(TraitOrder) |-> v]]
DutyScores == {0, 1, 20, 100, 5000, 26086, 26087, SCORE_MAX}
\* Score maps with the traits of the overrides at either end of the range
\* and the other traits in the middle of it: every pair of traits but those
\* of two traits on the same level differs by more than the built-in
\* score_diff_threshold.
OverrideTraits == {"RE", "ES", "TR", "NC", "KS", "CPv"}
SpreadScores ==
    {[keys |-> TraitOrder,
      val |-> [t \in Range(TraitOrder) |->
                 IF t \in high THEN SCORE_MAX
                 ELSE IF t \in OverrideTraits THEN SCORE_MIN
                 ELSE NEUTRAL_SCORE]] : high \in SUBSET OverrideTraits}
\* conflict_threshold values up to 1.0, in hundredths: between the
\* overrides, below the neutral weight, and the neutral weight.
Thresholds == {0 - 45, 0 - 38, 0, 50, NeutralWeight}
\* Scores in and out of range, and around SCORE_MAX / 1.15 and
\* SCORE_MAX / 1.08.
BoostInputs == ClampInputs \cup DutyScores \cup {27777, 27778}
AssessedScores ==
    {hw_assess_traits(1, llm, NoConfig, TraitOrder).scores :
        llm \in {RunQuiet, RunScenario, RunAll, RunCalm}}
LoadedConfig == load_cocorels_config(sub_traits_jbo).config
\* Resolver states: new, and as one and two cycles on the scenario scores,
\* by the path the built-in flag selects, leave it.
ScenarioScores == hw_assess_traits(1, RunScenario, NoConfig, TraitOrder).scores
ResolverAfter(n) ==
    IF n = 0 THEN NewResolver
    ELSE IF n = 1 THEN resolve(NewResolver, << <<7, 8>> >>, ScenarioScores, FALSE).rs
    ELSE resolve(resolve(NewResolver, << <<7, 8>> >>, ScenarioScores, FALSE).rs,
                 << <<7, 8>> >>, ScenarioScores, FALSE).rs
ResolverStates == {ResolverAfter(n) : n \in 0..2}
\* A resolver that ran LastDecaying - 4 cycles without a conflict: no factor,
\* and a momentum of 0.9 ^ time_step, below 1 / MomOne.
QuietResolver ==
    [adjustment_factors |-> EmptyDict, ethical_momentum |-> 0,
     time_step |-> LastDecaying - 4]
\* The cycles that follow: (RE, ES) flagged in the first and the fourth.
LateConflicts(k) ==
    IF k \in {1, 4} THEN << <<7, 8>> >> ELSE <<>>
RECURSIVE LateResolver(_)
LateResolver(k) ==
    IF k = 0 THEN QuietResolver
    ELSE resolve(LateResolver(k - 1), LateConflicts(k), ScenarioScores, FALSE).rs
LateResolverStates == {LateResolver(k) : k \in 0..5}

InitPure ==
    /\ InitProgram
    /\ fn_ret = <<>>
    /\ \/ fn_op = "clamp_score" /\ fn_arg \in ClampInputs
       \/ fn_op = "decay_function" /\ fn_arg \in Factors
       \/ fn_op = "tmr_decay" /\ fn_arg \in Factors
       \/ fn_op = "deepseek_tmr_decay" /\ fn_arg \in Factors
       \/ fn_op = "tmr_vote" /\ fn_arg \in Replicas \X Replicas \X Replicas
       \/ fn_op = "vectorized_duty_boost"
          /\ fn_arg \in {UniformScores(v) : v \in DutyScores} \cup AssessedScores
       \/ fn_op = "aggregate"
          /\ fn_arg \in {EmptyDict} \cup {UniformScores(v) : v \in DutyScores}
                        \cup AssessedScores
       \/ fn_op = "vectorized_conflict_detection" /\ fn_arg \in AssessedScores
       \/ fn_op = "boosts" /\ fn_arg \in BoostInputs
       \/ fn_op = "detect_threshold"
          /\ fn_arg \in [scores : SpreadScores, conflict_threshold : Thresholds]
       \/ fn_op = "process_dilemma"
          /\ fn_arg \in [first : ResolverStates, second : ResolverStates,
                          scores : AssessedScores]
       \/ fn_op = "_apply_temporal_decay"
          /\ fn_arg \in ResolverStates \cup LateResolverStates
       \/ fn_op = "resolve"
          /\ fn_arg \in [rs : ResolverStates, scores : AssessedScores]

PureFrame ==
    UNCHANGED <<task_queue, resolver_vars, secure_boot, config, frame_vars, result,
                raised, entry_vars, hist_vars, worker_vars, variant_vars, fn_op, fn_arg>>

\* clamp_score(v), then clamp_score of what it returned.
CallClampScore ==
    /\ fn_op = "clamp_score"
    /\ Len(fn_ret) < 2
    /\ fn_ret' = Append(fn_ret, clamp_score(IF fn_ret = <<>> THEN fn_arg
                                            ELSE fn_ret[Len(fn_ret)]))
    /\ PureFrame

CallDecayFunction ==
    /\ fn_op = "decay_function"
    /\ fn_ret = <<>>
    /\ fn_ret' = <<decay_function(fn_arg)>>
    /\ PureFrame

\* tmr_decay(factor), twice, each call with or without the upset.
CallTmrDecay ==
    /\ fn_op = "tmr_decay"
    /\ Len(fn_ret) < 2
    /\ \E upset \in BOOLEAN :
          fn_ret' = Append(fn_ret, [upset |-> upset,
                                    replicas |-> tmr_replicas(fn_arg, upset),
                                    value |-> tmr_decay(fn_arg, upset)])
    /\ PureFrame

CallDeepseekTmrDecay ==
    /\ fn_op = "deepseek_tmr_decay"
    /\ Len(fn_ret) < 2
    /\ \E upset \in BOOLEAN :
          \E v \in deepseek_vote(deepseek_tmr_results(fn_arg, upset)) :
             fn_ret' = Append(fn_ret, [upset |-> upset,
                                       replicas |-> deepseek_tmr_results(fn_arg, upset),
                                       value |-> v])
    /\ PureFrame

\* The vote of tmr_decay on replicas that an upset of the hardware left.
CallTmrVote ==
    /\ fn_op = "tmr_vote"
    /\ fn_ret = <<>>
    /\ fn_ret' = <<tmr_vote(fn_arg[1], fn_arg[2], fn_arg[3])>>
    /\ PureFrame

CallDutyBoost ==
    /\ fn_op = "vectorized_duty_boost"
    /\ fn_ret = <<>>
    /\ fn_ret' = <<vectorized_duty_boost(fn_arg, LoadedConfig)>>
    /\ PureFrame

\* mcda_score(scores, ...) and balance_score(scores)
CallAggregate ==
    /\ fn_op = "aggregate"
    /\ fn_ret = <<>>
    /\ fn_ret' = <<[mcda_score |-> mcda_score(fn_arg),
                    balance_score |-> balance_score(fn_arg)]>>
    /\ PureFrame

\* vectorized_conflict_detection on the same scores, once in every state the
\* resolver is left in; detection that a lowered momentum silences.
CallDetectDamped ==
    /\ fn_op = "vectorized_conflict_detection"
    /\ Len(fn_ret) <= time_step
    /\ fn_ret' = Append(fn_ret,
          [conflicts |-> IF ethical_momentum < MomOne THEN <<>>
                         ELSE vectorized_conflict_detection(TraitOrder, fn_arg, LoadedConfig),
           rs |-> [adjustment_factors |-> adjustment_factors,
                   ethical_momentum |-> ethical_momentum, time_step |-> time_step]])
    /\ PureFrame

CallDetect ==
    /\ fn_op = "vectorized_conflict_detection"
    /\ Len(fn_ret) <= time_step
    /\ fn_ret' = Append(fn_ret,
          [conflicts |-> vectorized_conflict_detection(TraitOrder, fn_arg, LoadedConfig),
           rs |-> [adjustment_factors |-> adjustment_factors,
                   ethical_momentum |-> ethical_momentum, time_step |-> time_step]])
    /\ PureFrame

\* A resolve cycle between two detections, for the pairs of these scores.
CallResolveBetween ==
    /\ fn_op = "vectorized_conflict_detection"
    /\ time_step < MaxDilemmas
    /\ \E upset \in BOOLEAN :
          LET r == resolve([adjustment_factors |-> adjustment_factors,
                            ethical_momentum |-> ethical_momentum,
                            time_step |-> time_step],
                           vectorized_conflict_detection(TraitOrder, fn_arg, LoadedConfig),
                           fn_arg, upset)
          IN  /\ adjustment_factors' = r.rs.adjustment_factors
              /\ ethical_momentum' = r.rs.ethical_momentum
              /\ time_step' = r.rs.time_step
    /\ UNCHANGED <<task_queue, secure_boot, config, frame_vars, result, raised,
                   entry_vars, hist_vars, worker_vars, variant_vars, pure_vars>>

\* resolve on the pairs detected in the scores, by the vectorized path and
\* by the scalar fallback (has_vector_unit() false).
CallResolve ==
    /\ fn_op = "resolve"
    /\ fn_ret = <<>>
    /\ \E upset \in BOOLEAN :
          LET c == vectorized_conflict_detection(TraitOrder, fn_arg.scores, LoadedConfig)
          IN  fn_ret' = <<[conflicts |-> c,
                           vector |-> resolve_on(TRUE, fn_arg.rs, c, fn_arg.scores, upset),
                           scalar |-> resolve_on(FALSE, fn_arg.rs, c, fn_arg.scores, upset)]>>
    /\ PureFrame

CallApplyTemporalDecay ==
    /\ fn_op = "_apply_temporal_decay"
    /\ fn_ret = <<>>
    /\ \E upset \in BOOLEAN : fn_ret' = <<apply_temporal_decay(fn_arg, upset)>>
    /\ PureFrame

\* process_dilemma from the scores of the assessment on, on a processor
\* whose resolver is rs, has_vector_unit() returning vector_unit: the Result
\* without its signature.
process_dilemma_from(vector_unit, rs, in_scores, upset) ==
    LET c == vectorized_conflict_detection(TraitOrder, in_scores, LoadedConfig)
        r == resolve_on(vector_unit, rs, c, in_scores, upset)
        boosted == vectorized_core_boost(r.scores)
    IN  [scores |-> boosted,
         conflicts |-> r.conflict_list,
         mcda_score |-> mcda_score(boosted),
         balance_score |-> balance_score(boosted)]

\* The same dilemma on two processors with the resolvers first and second,
\* by the vectorized path and by the scalar fallback.
CallProcessDilemma ==
    /\ fn_op = "process_dilemma"
    /\ fn_ret = <<>>
    /\ \E u1 \in BOOLEAN, u2 \in BOOLEAN :
          fn_ret' = <<[vector_first |->
                           process_dilemma_from(TRUE, fn_arg.first, fn_arg.scores, u1),
                       vector_second |->
                           process_dilemma_from(TRUE, fn_arg.second, fn_arg.scores, u2),
                       scalar_first |->
                           process_dilemma_from(FALSE, fn_arg.first, fn_arg.scores, u1),
                       scalar_second |->
                           process_dilemma_from(FALSE, fn_arg.second, fn_arg.scores, u2)]>>
    /\ PureFrame

\* Both boosts on the score v for every trait, and on clamp_score(v).
CallBoosts ==
    /\ fn_op = "boosts"
    /\ fn_ret = <<>>
    /\ fn_ret' = <<[duty |-> vectorized_duty_boost(UniformScores(fn_arg), LoadedConfig),
                    duty_of_clamped |->
                        vectorized_duty_boost(UniformScores(clamp_score(fn_arg)),
                                              LoadedConfig),
                    core |-> vectorized_core_boost(UniformScores(fn_arg)),
                    core_of_clamped |->
                        vectorized_core_boost(UniformScores(clamp_score(fn_arg)))]>>
    /\ PureFrame

\* Detection under a conflict_threshold, and the resolve cycle of a new
\* resolver on the pairs it flags.
CallDetectThreshold ==
    /\ fn_op = "detect_threshold"
    /\ fn_ret = <<>>
    /\ LET cfg == [LoadedConfig EXCEPT
                      !.resolution_config.conflict_threshold = fn_arg.conflict_threshold]
           c == vectorized_conflict_detection(TraitOrder, fn_arg.scores, cfg)
       IN  fn_ret' = <<[conflicts |-> c,
                        resolved |-> resolve(NewResolver, c, fn_arg.scores, FALSE)]>>
    /\ PureFrame

NextPure ==
    \/ CallDetectThreshold
    \/ CallProcessDilemma
    \/ CallBoosts
    \/ CallApplyTemporalDecay
    \/ CallResolve
    \/ CallDutyBoost
    \/ CallAggregate
    \/ CallDetect
    \/ CallResolveBetween
    \/ CallClampScore
    \/ CallDecayFunction
    \/ CallTmrDecay
    \/ CallDeepseekTmrDecay
    \/ CallTmrVote

SpecPure == InitPure /\ [][NextPure]_vars

\* ------------------------------------------- one resolver over many cycles
\* The cycles of a run, and those of them whose dilemma is not the scenario.
MaxCycles == 13
MaxOffScenario == 1

\* The momentum over MaxCycles cycles: a pair [hi, lo] standing for
\* (hi * 10^7 + lo) / (20 * 10^MaxCycles), exact while no more than MaxCycles
\* cycles have run.
LongLimb == Pow10(7)
LongZero == [hi |-> 0, lo |-> 0]
LongOne == [hi |-> 2 * Pow10(MaxCycles - 6), lo |-> 0]
LongLeq(a, b) == a.hi < b.hi \/ (a.hi = b.hi /\ a.lo <= b.lo)

\* max(0.0, momentum * 0.9)
damp_momentum_long(m) ==
    LET h == 9 * m.hi + ((9 * m.lo) \div LongLimb)
        l == (9 * m.lo) % LongLimb
    IN  [hi |-> h \div 10, lo |-> ((h % 10) * LongLimb + l) \div 10]

\* momentum - 0.05 * len(conflicts) without the floor at 0.
reduce_momentum_long_unfloored(m, cs) ==
    [hi |-> m.hi - Len(cs) * Pow10(MaxCycles - 7), lo |-> m.lo]
\* The subtraction left out where it would go below 0.
reduce_momentum_long_kept(m, cs) ==
    IF m.hi < Len(cs) * Pow10(MaxCycles - 7) THEN m
    ELSE [hi |-> m.hi - Len(cs) * Pow10(MaxCycles - 7), lo |-> m.lo]
\* max(0.0, momentum - 0.05 * len(conflicts)); 0.05 is 10^MaxCycles units.
reduce_momentum_long(m, cs) ==
    IF m.hi < Len(cs) * Pow10(MaxCycles - 7) THEN LongZero
    ELSE [hi |-> m.hi - Len(cs) * Pow10(MaxCycles - 7), lo |-> m.lo]

\* resolve, with the momentum as a pair.
resolve_long(rs, cs, in_scores, upset) ==
    LET r == resolve([rs EXCEPT !.ethical_momentum = 0], cs, in_scores, upset)
    IN  [r EXCEPT !.rs.ethical_momentum =
                     reduce_momentum_long(damp_momentum_long(rs.ethical_momentum), cs)]

\* A dilemma of a run: its assessed scores and the pairs detection flags in
\* them.  The dilemmas of a run, one per cycle, are the scenario, but for at
\* most MaxOffScenario of them.
RunDilemma(llm) ==
    LET s == hw_assess_traits(1, llm, NoConfig, TraitOrder).scores
    IN  [scores |-> s,
         conflicts |-> vectorized_conflict_detection(TraitOrder, s, LoadedConfig)]
CalmDilemma == RunDilemma(RunCalm)
ScenarioDilemma == RunDilemma(RunScenario)
AllDilemma == RunDilemma(RunAll)
RECURSIVE RunsOff(_)
RunsOff(n) ==
    IF n = 0 THEN {[i \in 1..MaxCycles |-> ScenarioDilemma]}
    ELSE RunsOff(n - 1)
         \cup {[s EXCEPT ![i] = x] :
                  s \in RunsOff(n - 1), i \in 1..MaxCycles,
                  x \in {CalmDilemma, AllDilemma}}
Runs == RunsOff(MaxOffScenario)

InitCycles ==
    /\ InitButMomentum
    /\ ethical_momentum = LongOne
    /\ fn_op = "resolve cycles"
    /\ fn_arg \in Runs
    /\ fn_ret = <<>>

\* The resolve of the next dilemma of the run, on the pairs detected in it.
Cycle ==
    /\ fn_op = "resolve cycles"
    /\ time_step < Len(fn_arg)
    /\ \E upset \in BOOLEAN :
          LET s == fn_arg[time_step + 1].scores
              c == fn_arg[time_step + 1].conflicts
              r == resolve_long([adjustment_factors |-> adjustment_factors,
                                 ethical_momentum |-> ethical_momentum,
                                 time_step |-> time_step], c, s, upset)
          IN  /\ conflicts' = c
              /\ adjustment_factors' = r.rs.adjustment_factors
              /\ ethical_momentum' = r.rs.ethical_momentum
              /\ time_step' = r.rs.time_step
    /\ UNCHANGED <<task_queue, secure_boot, config, pc, cur, scores, conflict_records,
                   metrics, result, raised, entry_vars, hist_vars, worker_vars,
                   variant_vars, pure_vars>>

NextCycles == Cycle
SpecCycles == InitCycles /\ [][NextCycles]_vars
\* The caller goes on handing over the dilemmas of the run: while one is
\* left, a cycle (the only step that advances time_step) is eventually run.
CycleDue ==
    /\ fn_op = "resolve cycles"
    /\ time_step < Len(fn_arg)
    /\ time_step' = time_step + 1
SpecCyclesLive == SpecCycles /\ WF_time_step(CycleDue)

\* ================================================================ claims
TraitIndices == 1..Len(TraitOrder)
InRange(d) == \A t \in Range(d.keys) : d.val[t] \in SCORE_MIN..SCORE_MAX
LastHanded == handed_log[Len(handed_log)]
IsPrefix(s, t) == Len(s) <= Len(t) /\ SubSeq(t, 1, Len(s)) = s

\* C1: in both schedulers, the dilemmas handed to the processor, followed by
\* those still pending, are the dilemmas enqueued, in the order they were
\* enqueued: the k-th dilemma handed over is the k-th enqueued, none twice,
\* skipped or reordered.
C1_FifoOrderV3 == handed_log \o task_queue = enq_log
C1_FifoOrder ==
    /\ C1_FifoOrderV3
    /\ ds_handed \o ds_queue = ds_added

\* C2: every score of every ScoreMap the pipeline writes (assessed, boosted,
\* resolved, and in the returned Result) is in [0, 30000].
C2_ScoresInRange ==
    /\ InRange(scores)
    /\ InRange(assessed)
    /\ InRange(detect_in)
    /\ InRange(result.scores)

\* A second dilemma returned, in which the out-of-range responses 45000 and
\* -5 were assessed as 30000 and 0, and DI got its core boost.
C2_Witness ==
    /\ result.kind = "result"
    /\ time_step = 2
    /\ assessed.val["RE"] = SCORE_MAX
    /\ assessed.val["ES"] = SCORE_MIN
    /\ result.scores.val["DI"] = 16200

\* C3: once detection has run, the ordered pair (i, j) is flagged iff
\* matrix[i][j] < conflict_threshold and |score[i] - score[j]| >
\* score_diff_threshold, each pair at most once; (i, j) and (j, i) are decided
\* separately.
C3_DetectIff ==
    pc \in {"resolve", "core", "aggregate", "sign"} =>
        LET M == build_interaction_matrix(config.sub_traits.keys)
            Score(i) == detect_in.val[TraitOrder[i]]
        IN  /\ \A i \in TraitIndices, j \in TraitIndices :
                 (<<i, j>> \in Range(conflicts)) <=>
                    (/\ M[i][j] < config.resolution_config.conflict_threshold
                     /\ Abs(Score(i) - Score(j)) >
                            config.resolution_config.score_diff_threshold)
            /\ Cardinality(Range(conflicts)) = Len(conflicts)

\* (RE, ES) is flagged and (ES, RE) is not, and (TR, NC), whose scores differ
\* by exactly the threshold, is not.
C3_Witness ==
    /\ pc = "resolve"
    /\ conflicts = << <<7, 8>> >>
    /\ Abs(detect_in.val["TR"] - detect_in.val["NC"]) = 7000
    /\ Abs(detect_in.val["ES"] - detect_in.val["RE"]) > 7000

\* C4: right after a resolve cycle, the score of every trait of a flagged
\* pair is clamp(trunc(0.95 * score)) and every other score is unchanged; RE:
\* 1000 and ES: 9000 are flagged as (RE, ES) and become 950 and 8550.
C4_FlaggedTraits == {TraitOrder[c[1]] : c \in Range(conflicts)}
                       \cup {TraitOrder[c[2]] : c \in Range(conflicts)}
C4_Resolution ==
    pc = "core" =>
        /\ \A t \in Range(TraitOrder) :
              scores.val[t] =
                 IF t \in C4_FlaggedTraits
                 THEN Max(0, Min(30000, (detect_in.val[t] * 95) \div 100))
                 ELSE detect_in.val[t]
        /\ (detect_in.val["RE"] = 1000 /\ detect_in.val["ES"] = 9000) =>
              /\ <<7, 8>> \in Range(conflicts)
              /\ scores.val["RE"] = 950
              /\ scores.val["ES"] = 8550

C4_Witness ==
    /\ pc = "core"
    /\ conflicts = << <<7, 8>> >>
    /\ detect_in.val["RE"] = 1000
    /\ detect_in.val["ES"] = 9000
    /\ scores.val["RE"] = 950
    /\ scores.val["ES"] = 8550
    /\ scores.val["TR"] = 7000

\* C5: no step raises the momentum: after a resolve cycle it is at most what
\* it was before.
C5_MomentumNeverIncreases == [][ethical_momentum' <= ethical_momentum]_vars

\* A second resolve cycle with conflicts has lowered the momentum again.
C5_Witness ==
    /\ pc = "core"
    /\ time_step = 2
    /\ Len(conflict_records) > 0
    /\ ethical_momentum < (MomOne * 3) \div 4

\* C6: the stages of a dilemma run in the order assess, duty boost (for a
\* duty task), detect, resolve, core boost, aggregate, sign; detection and
\* resolution are given the scores without the core boost, and the flagged
\* pairs are those of these scores.
C6_Expected(task_type) ==
    IF task_type = "duty"
    THEN <<"assess", "duty", "detect", "resolve", "core", "aggregate", "sign">>
    ELSE <<"assess", "detect", "resolve", "core", "aggregate", "sign">>
C6_StageOrder ==
    handed_log # <<>> =>
        /\ IsPrefix(stage_log, C6_Expected(LastHanded.task_type))
        /\ result.kind = "result" => stage_log = C6_Expected(LastHanded.task_type)
        /\ detect_in # EmptyDict =>
              detect_in = IF LastHanded.task_type = "duty"
                          THEN vectorized_duty_boost(assessed, config)
                          ELSE assessed
        /\ pc \in {"resolve", "core", "aggregate", "sign"} =>
              conflicts = vectorized_conflict_detection(TraitOrder, detect_in, config)

\* A duty dilemma returned with no conflict although, after the core boost,
\* NC is more than the threshold away from TR.
C6_Witness ==
    /\ result.kind = "result"
    /\ LastHanded.task_type = "duty"
    /\ result.conflicts = <<>>
    /\ result.scores.val["NC"] - result.scores.val["TR"] > 7000
    /\ assessed.val["NC"] - assessed.val["TR"] <= 7000

\* C7: when two threads share one resolver, the state after both resolve
\* cycles is the state after the two cycles run one after the other, in one
\* of the two orders.
C7_Resolver ==
    [adjustment_factors |-> adjustment_factors, ethical_momentum |-> ethical_momentum,
     time_step |-> time_step]
C7_After(first, second) ==
    resolve(resolve(NewResolver, w_conflicts[first], WorkerScores, FALSE).rs,
            w_conflicts[second], WorkerScores, FALSE).rs
C7_Serializable ==
    (\A w \in Workers : w_pc[w] = "done") =>
        C7_Resolver \in {C7_After(1, 2), C7_After(2, 1)}

\* C8: a failure of the assessor is never propagated: no exception of the
\* assessor leaves process_next or process_ethical_dilemma.
C8_AssessorFailureRecovered ==
    /\ raised.msg # <<"llm">>
    /\ entry_out.kind # "raised"

\* C9: when the integrity check fails, process_ethical_dilemma returns the
\* error result and has loaded no configuration, enqueued, assessed or
\* resolved no dilemma, and left the resolver as constructed; the check runs
\* before anything else.
C9_Untouched ==
    /\ ~config.loaded
    /\ task_queue = <<>>
    /\ enq_log = <<>>
    /\ handed_log = <<>>
    /\ stage_log = <<>>
    /\ pc = "idle"
    /\ result = Unset
    /\ C7_Resolver = NewResolver
C9_IntegrityGate ==
    /\ entry_pc = "verify" => C9_Untouched
    /\ ~secure_boot =>
          /\ entry_pc = "returned"
          /\ entry_out.kind = "error"
          /\ entry_out.error = <<"Hardware tampering detected.">>
          /\ ~entry_out.hardware_compatible
          /\ C9_Untouched

C9_Witness ==
    /\ ~secure_boot
    /\ entry_pc = "returned"
    /\ entry_out.kind = "error"
    /\ entry_args.task_type = "duty"

\* C10: a configuration is loaded only if every entry has a predicate that is
\* a string with a non-blank character; when the load fails,
\* process_ethical_dilemma returns the error result, and no dilemma is
\* enqueued or processed without a loaded configuration.
C10_ValidPredicate(p) == p.present /\ p.isstr /\ \E i \in 1..Len(p.text) : ~IsSpace(p.text[i])
C10_LoadFailed ==
    /\ entry_out.kind = "error"
    /\ entry_out.error # <<>>
    /\ entry_out.error[1] \in {"Missing LojbanPredicate", "Empty LojbanPredicate"}
C10_TaxonomyWhole ==
    /\ config.loaded =>
          /\ config.sub_traits.keys = TraitOrder
          /\ \A t \in Range(TraitOrder) :
                C10_ValidPredicate(config.sub_traits.val[t].LojbanPredicate)
    /\ (enq_log # <<>> \/ pc # "idle") => config.loaded
    /\ (entry_pc = "returned" /\ ~config.loaded /\ secure_boot) =>
          /\ C10_LoadFailed
          /\ ~entry_out.hardware_compatible
          /\ C9_Untouched

\* The load failed on the whitespace-only predicate of DI.
C10_Witness ==
    /\ entry_pc = "returned"
    /\ entry_out.kind = "error"
    /\ entry_out.error = <<"Empty LojbanPredicate", "DI">>
    /\ ~config.loaded

\* C11: a process_next on an empty queue returns None without raising, and
\* leaves the queue empty and the resolver's time_step, adjustment factors
\* and momentum as they were.
C11_EmptyQueue ==
    [][(ProcessNext /\ task_queue = <<>>) =>
          /\ result' = ReturnedNone
          /\ raised' = NoExc
          /\ task_queue' = <<>>
          /\ pc' = "idle"
          /\ UNCHANGED resolver_vars]_vars

\* The same for the scheduler of cocorels_v3_deepseek.py.
C11_EmptyQueueDeepseek ==
    [][(DeepseekProcessNext /\ ds_queue = <<>>) =>
          (ds_out' = "None" /\ ds_queue' = <<>> /\ UNCHANGED ds_handed)]_vars

\* None was returned by a scheduler that had processed a dilemma with
\* conflicts before.
C11_Witness ==
    /\ result = ReturnedNone
    /\ task_queue = <<>>
    /\ handed_log # <<>>
    /\ time_step = 1
    /\ ethical_momentum < MomOne

\* C12: when detection flagged no pair, the scores resolve returns are the
\* scores it was given and its conflict list is empty; so it is for scores
\* 5000 and 5200 under a neutral weight and the thresholds (0.5, 7000).
C12_NoConflictFrame ==
    /\ (pc = "core" /\ conflicts = <<>>) =>
          /\ scores = detect_in
          /\ conflict_records = <<>>
    /\ (pc \in {"resolve", "core"} /\ Range(detect_in.keys) # {}
          /\ \A t \in Range(detect_in.keys) : detect_in.val[t] \in {5000, 5200}) =>
          conflicts = <<>>

\* Resolve returned the scores 5000 and 5200 as given, on a resolver whose
\* adjustment factors an earlier cycle with conflicts had set.
C12_Witness ==
    /\ pc = "core"
    /\ conflicts = <<>>
    /\ conflict_records = <<>>
    /\ scores.val["CS"] = 5000
    /\ scores.val["DP"] = 5200
    /\ build_interaction_matrix(TraitOrder)[IndexOf(TraitOrder, "CS")][IndexOf(TraitOrder, "DP")]
          = NeutralWeight
    /\ config.resolution_config = [conflict_threshold |-> 50, score_diff_threshold |-> 7000]
    /\ time_step = 2
    /\ adjustment_factors.keys # <<>>

\* C16: decay_function(factor) is the integer nearest to
\* 100 * (1 - e^(-0.1 * factor)) and lies in [0, 100]; factor 1 gives 10 and
\* factor 2 gives 18.
C16_Nearest(factor) ==
    (100 * (ExpOne - ExpNegTenth(factor)) + (ExpOne \div 2)) \div ExpOne
C16_DecayRounds ==
    (fn_op = "decay_function" /\ fn_ret # <<>>) =>
        /\ fn_ret[1] = C16_Nearest(fn_arg)
        /\ fn_ret[1] \in 0..100
        /\ fn_arg = 1 => fn_ret[1] = 10
        /\ fn_arg = 2 => fn_ret[1] = 18

\* C17: the vote of tmr_decay returns r1 when r1 = r2 or r1 = r3, else r2
\* when r2 = r3, else r1; and the replicas tmr_decay votes on are
\* decay_function(factor) three times, the second one halved by the upset.
C17_Vote ==
    /\ (fn_op = "tmr_vote" /\ fn_ret # <<>>) =>
          LET r1 == fn_arg[1]
              r2 == fn_arg[2]
              r3 == fn_arg[3]
          IN  /\ (r1 = r2 \/ r1 = r3) => fn_ret[1] = r1
              /\ (r1 # r2 /\ r1 # r3 /\ r2 = r3) => fn_ret[1] = r2
              /\ (r1 # r2 /\ r1 # r3 /\ r2 # r3) => fn_ret[1] = r1
    /\ fn_op = "tmr_decay" =>
          \A k \in 1..Len(fn_ret) :
             LET e == fn_ret[k]
                 d == decay_function(fn_arg)
             IN  /\ e.replicas[1] = d
                 /\ e.replicas[3] = d
                 /\ e.replicas[2] = IF e.upset THEN d \div 2 ELSE d
                 /\ e.value = IF e.replicas[1] = e.replicas[2]
                                  \/ e.replicas[1] = e.replicas[3]
                               THEN e.replicas[1]
                               ELSE IF e.replicas[2] = e.replicas[3]
                               THEN e.replicas[2] ELSE e.replicas[1]

\* The upset halved the second replica of factor 5 and the vote returned
\* the first.
C17_Witness ==
    /\ fn_op = "tmr_decay"
    /\ fn_arg = 5
    /\ Len(fn_ret) = 1
    /\ fn_ret[1].upset
    /\ fn_ret[1].replicas = <<39, 19, 39>>
    /\ fn_ret[1].value = 39

\* C18: every call of tmr_decay for one factor returns the same value,
\* decay_function(factor), whether or not the upset fired, in both source
\* files.
C18_VoteReproducible ==
    fn_op \in {"tmr_decay", "deepseek_tmr_decay"} =>
        /\ \A k \in 1..Len(fn_ret) : fn_ret[k].value = decay_function(fn_arg)
        /\ \A j, k \in 1..Len(fn_ret) : fn_ret[j].value = fn_ret[k].value

\* The decay a resolve cycle applies is the one it applies without the upset.
C18_ResolveCycle ==
    [][Resolve =>
          /\ adjustment_factors' =
                resolve([adjustment_factors |-> adjustment_factors,
                         ethical_momentum |-> ethical_momentum,
                         time_step |-> time_step], conflicts, scores, FALSE).rs.adjustment_factors
          /\ time_step' = time_step + 1]_vars

\* Two calls for factor 3, the upset firing in the second only, both
\* returned 25.
C18_Witness ==
    /\ fn_op = "tmr_decay"
    /\ fn_arg = 3
    /\ Len(fn_ret) = 2
    /\ ~fn_ret[1].upset
    /\ fn_ret[2].upset
    /\ fn_ret[2].replicas[2] = 12
    /\ fn_ret[1].value = 25
    /\ fn_ret[2].value = 25

\* C19: clamp_score(v) is in [0, 30000], is v when v is in [0, 30000], and
\* clamp_score(clamp_score(v)) = clamp_score(v).
C19_ClampAlgebra ==
    fn_op = "clamp_score" =>
        /\ Len(fn_ret) >= 1 =>
              /\ fn_ret[1] \in 0..30000
              /\ fn_arg \in 0..30000 => fn_ret[1] = fn_arg
        /\ Len(fn_ret) = 2 => fn_ret[2] = fn_ret[1]

\* A negative input was clamped to 0, and clamped again.
C19_Witness ==
    /\ fn_op = "clamp_score"
    /\ fn_arg = -1
    /\ fn_ret = <<0, 0>>

C13_DutyBoostBinary64 ==
    (fn_op = "vectorized_duty_boost" /\ fn_ret # <<>>) =>
        \A t \in Range(TraitOrder) :
           IF MidLevelOf(t) = "Duty"
           THEN /\ fn_ret[1].val[t] = Max(0, Min(30000, FloatMulTrunc115(fn_arg.val[t])))
                /\ (fn_arg.val[t] * 115) \div 100 - FloatMulTrunc115(fn_arg.val[t]) \in {0, 1}
           ELSE fn_ret[1].val[t] = fn_arg.val[t]

C20_EmptyAggregate ==
    (fn_op = "aggregate" /\ fn_ret # <<>> /\ Len(fn_arg.keys) = 0) =>
        /\ fn_ret[1].mcda_score.den > 0
        /\ fn_ret[1].mcda_score.num = 0
        /\ fn_ret[1].balance_score.den > 0
        /\ fn_ret[1].balance_score.num = Norm(0, 0)

C20_Witness ==
    /\ fn_op = "aggregate"
    /\ fn_arg = EmptyDict
    /\ fn_ret # <<>>
    /\ fn_ret[1].mcda_score = [num |-> 0, den |-> 1]

\* C14: for one dilemma the duty boost runs once when the task type is
\* "duty" and never otherwise, and the core boost runs once: the scores given
\* to detection are the assessed scores with the Duty traits boosted one
\* time for a duty task, and the scores aggregated are the resolved scores
\* with NC and DI, and no other trait, boosted one time.
C14_Resolved == vectorized_resolution(EmptyDict, conflicts, detect_in).resolved
C14_BoostsOnce ==
    /\ Count(stage_log, "duty") <= 1
    /\ Count(stage_log, "core") <= 1
    /\ (handed_log # <<>> /\ LastHanded.task_type # "duty") => Count(stage_log, "duty") = 0
    /\ result.kind = "result" =>
          /\ Count(stage_log, "core") = 1
          /\ Count(stage_log, "duty") = IF LastHanded.task_type = "duty" THEN 1 ELSE 0
    /\ detect_in # EmptyDict =>
          \A t \in Range(TraitOrder) :
             detect_in.val[t] =
                IF LastHanded.task_type = "duty" /\ MidLevelOf(t) = "Duty"
                THEN Max(0, Min(30000, FloatMulTrunc115(assessed.val[t])))
                ELSE assessed.val[t]
    /\ pc \in {"aggregate", "sign"} =>
          \A t \in Range(TraitOrder) :
             scores.val[t] =
                IF t \in {"NC", "DI"}
                THEN Max(0, Min(30000, (C14_Resolved.val[t] * 108) \div 100))
                ELSE C14_Resolved.val[t]

\* A duty dilemma returned with TC boosted from 100 to 114 and NC from 6900
\* to 7452, one time each.
C14_Witness ==
    /\ result.kind = "result"
    /\ LastHanded.task_type = "duty"
    /\ assessed.val["TC"] = 100
    /\ assessed.val["NC"] = 6900
    /\ result.scores.val["TC"] = 114
    /\ result.scores.val["NC"] = 7452
    /\ result.scores.val["CS"] = assessed.val["CS"]

\* C21: the mcda_score of every Result is the sum of its scores over the
\* number of traits times 30000, and lies in [0, 1].
RECURSIVE C21_Sum(_, _)
C21_Sum(d, k) == IF k = 0 THEN 0 ELSE d.val[d.keys[k]] + C21_Sum(d, k - 1)
C21_McdaMean ==
    result.kind = "result" =>
        /\ result.mcda_score.den = Len(result.scores.keys) * 30000
        /\ result.mcda_score.num = C21_Sum(result.scores, Len(result.scores.keys))
        /\ 0 <= result.mcda_score.num
        /\ result.mcda_score.num <= result.mcda_score.den

\* The Result of the scenario scores, over 12 traits.
C21_Witness ==
    /\ result.kind = "result"
    /\ result.scores.val["RE"] = 950
    /\ result.scores.val["ES"] = 8550
    /\ result.mcda_score.num > 0
    /\ result.mcda_score.num < result.mcda_score.den
    /\ Len(result.scores.keys) = 12

\* C22: only the resolve step of process_dilemma changes the resolver's
\* time_step, adjustment factors and momentum: enqueueing, handing over,
\* assessment, the boosts, detection, aggregation, signing and loading leave
\* them as they are, so a dilemma starts with the state the one before left.
C22_OnlyResolveMutates ==
    [][(resolver_vars' # resolver_vars) => (pc = "resolve" /\ pc' = "core")]_vars

\* The third dilemma is being assessed on the resolver as two cycles, one
\* with conflicts, left it.
C22_Witness ==
    /\ pc = "assess"
    /\ Len(handed_log) = 3
    /\ time_step = 2
    /\ adjustment_factors.keys # <<>>
    /\ ethical_momentum < MomOne

\* C23: for a non-empty conflict array, the scalar fallback of resolve gives
\* the resolved scores and the resolver state that the vectorized path gives.
C23_ScalarAsVectorized ==
    (fn_op = "resolve" /\ fn_ret # <<>> /\ fn_ret[1].conflicts # <<>>) =>
        /\ fn_ret[1].scalar.scores = fn_ret[1].vector.scores
        /\ fn_ret[1].scalar.rs = fn_ret[1].vector.rs

\* C24: time_step is 0 before the first dilemma and every resolve cycle, with
\* or without conflicts, adds exactly 1 to it, nothing else changing it, so
\* it counts the dilemmas that were processed; the factors a cycle leaves are
\* the old ones decayed by the decay of the incremented time_step (and, when
\* pairs are flagged, bumped for them).
C24_Decayed ==
    decay_factors(adjustment_factors, Max(0, Min(100, decay_function(time_step + 1))))
C24_TimeStep ==
    [][/\ handed_log = <<>> => time_step = 0
       /\ time_step <= Len(handed_log)
       /\ (pc = "resolve" /\ pc' # "resolve") =>
              /\ time_step' = time_step + 1
              /\ adjustment_factors'
                    = vectorized_resolution(C24_Decayed, conflicts, scores).factors
              /\ conflicts = <<>> => adjustment_factors' = C24_Decayed
       /\ ~(pc = "resolve" /\ pc' # "resolve") => time_step' = time_step]_vars
\* Three dilemmas processed, the last one with no conflict, and factors that
\* the last two cycles decayed.
C24_Witness ==
    /\ pc = "idle"
    /\ result.kind = "result"
    /\ result.conflicts = <<>>
    /\ Len(handed_log) = 3
    /\ time_step = 3
    /\ adjustment_factors.keys # <<>>

\* C25: a resolve cycle that starts with momentum m and has n flagged pairs
\* ends with momentum max(0, max(0, 0.9 * m) - 0.05 * n): the 0.9 decay
\* comes first, and every flagged ordered pair counts once.
C25_Momentum ==
    [][(pc = "resolve" /\ pc' # "resolve") =>
          /\ (9 * ethical_momentum) % 10 = 0
          /\ MomOne % 20 = 0
          /\ Cardinality(Range(conflicts)) = Len(conflicts)
          /\ 20 * ethical_momentum'
                = Max(0, 20 * Max(0, (9 * ethical_momentum) \div 10)
                         - MomOne * Len(conflicts))]_vars
\* The second of two cycles with three flagged pairs each:
\* 0.9 * (0.9 - 0.15) - 0.15 = 0.525.
C25_Witness ==
    /\ pc = "core"
    /\ time_step = 2
    /\ Len(conflict_records) = 3
    /\ 1000 * ethical_momentum = 525 * MomOne

\* C26: in a resolve cycle, after the decay step, each flagged pair (a, b)
\* multiplies the factor of a by 1.02 and the factor of b by 0.98, a trait
\* without a factor starting from 1.0; a trait in no flagged pair gets no new
\* factor and keeps its decayed one; the two bumps differ, so exchanging a
\* and b changes the factors.
C26_Decayed ==
    decay_factors(adjustment_factors, Max(0, Min(100, decay_function(time_step + 1))))
C26_Flagged == UNION {{TraitOrder[c[1]], TraitOrder[c[2]]} : c \in Range(conflicts)}
C26_Bumps ==
    [][(pc = "resolve" /\ pc' # "resolve") =>
          /\ \A k \in 1..Len(conflicts) :
                LET a == TraitOrder[conflicts[k][1]]
                    b == TraitOrder[conflicts[k][2]]
                    fa == DictGet(C26_Decayed, a, FactorOne)
                    fb == DictGet(C26_Decayed, b, FactorOne)
                IN  /\ DictHas(adjustment_factors', a)
                    /\ DictHas(adjustment_factors', b)
                    /\ adjustment_factors'.val[a] = TruncDiv(fa * 102, 100)
                    /\ adjustment_factors'.val[b] = TruncDiv(fb * 98, 100)
                    /\ TruncDiv(fa * 102, 100) # TruncDiv(fa * 98, 100)
                    /\ TruncDiv(fb * 102, 100) # TruncDiv(fb * 98, 100)
          /\ Range(adjustment_factors'.keys)
                = Range(adjustment_factors.keys) \cup C26_Flagged
          /\ \A t \in Range(adjustment_factors.keys) \ C26_Flagged :
                adjustment_factors'.val[t] = C26_Decayed.val[t]]_vars
\* The second cycle flagging (RE, ES): 1.02 * 0.18 * 1.02 and
\* 0.98 * 0.18 * 0.98.
C26_Witness ==
    /\ pc = "core"
    /\ time_step = 2
    /\ DictHas(adjustment_factors, "RE")
    /\ DictHas(adjustment_factors, "ES")
    /\ adjustment_factors.val["RE"] = 187272
    /\ adjustment_factors.val["ES"] = 172872

\* C27 as stated: the decay step multiplies every factor by
\* decay_factor = clamp(decayValue / 100, 0, 1) and snaps a result within
\* 0.01 of 1.0 to 1.0, leaves no factor strictly between 0.99 and 1.01 other
\* than 1.0, and never increases a factor.
C27_DecayFactor == Max(0, Min(100, decay_function(fn_arg.time_step + 1)))
C27_Called == fn_op = "_apply_temporal_decay" /\ fn_ret # <<>>
C27_MultiplyAndSnap ==
    /\ fn_ret[1].adjustment_factors.keys = fn_arg.adjustment_factors.keys
    /\ \A k \in Range(fn_arg.adjustment_factors.keys) :
          LET f == TruncDiv(fn_arg.adjustment_factors.val[k] * C27_DecayFactor, 100)
              g == fn_ret[1].adjustment_factors.val[k]
          IN  /\ g = IF Abs(f - FactorOne) < FactorOne \div 100 THEN FactorOne ELSE f
              /\ (99 * FactorOne < 100 * g /\ 100 * g < 101 * FactorOne) => g = FactorOne
C28_Flagged ==
    UNION {{config.sub_traits.keys[c[1]], config.sub_traits.keys[c[2]]} :
             c \in Range(conflicts)}
C28_ConflictList ==
    [][/\ (pc = "resolve" /\ pc' # "resolve") =>
            /\ config.sub_traits.keys = TraitOrder
            /\ scores.keys = TraitOrder
            /\ conflicts = vectorized_conflict_detection(TraitOrder, scores, config)
            /\ \A k \in 1..(Len(conflicts) - 1) :
                  \/ conflicts[k][1] < conflicts[k + 1][1]
                  \/ /\ conflicts[k][1] = conflicts[k + 1][1]
                     /\ conflicts[k][2] < conflicts[k + 1][2]
            /\ Len(conflict_records') = Len(conflicts)
            /\ \A k \in 1..Len(conflicts) :
                  /\ conflict_records'[k].trait1 = TraitOrder[conflicts[k][1]]
                  /\ conflict_records'[k].trait2 = TraitOrder[conflicts[k][2]]
            /\ scores'.keys = TraitOrder
            /\ \A t \in Range(TraitOrder) :
                  scores'.val[t] = IF t \in C28_Flagged
                                   THEN clamp_score(FloatMulTrunc(scores.val[t], 95))
                                   ELSE scores.val[t]
       /\ (pc = "sign" /\ pc' # "sign") =>
            /\ result'.kind = "result"
            /\ result'.conflicts = conflict_records]_vars
\* A duty dilemma with three flagged pairs: (RE, ES), (TR, NC), (KS, CPv).
C28_Witness ==
    /\ result.kind = "result"
    /\ pc = "idle"
    /\ "duty" \in Range(stage_log)
    /\ Len(result.conflicts) = 3
    /\ <<result.conflicts[1].trait1, result.conflicts[1].trait2>> = <<"RE", "ES">>
    /\ <<result.conflicts[2].trait1, result.conflicts[2].trait2>> = <<"TR", "NC">>
    /\ <<result.conflicts[3].trait1, result.conflicts[3].trait2>> = <<"KS", "CPv">>

\* C29: the assessment of a dilemma is complete before its resolve cycle
\* begins: from the hand-over of the dilemma to the end of the assessment,
\* whether it returns or raises, time_step, adjustment_factors and momentum
\* stay as they were, and they change only with all traits assessed.
C29_AssessBeforeResolve ==
    [][/\ pc \in {"idle", "assess"} => resolver_vars' = resolver_vars
       /\ resolver_vars' # resolver_vars =>
            /\ stage_log # <<>>
            /\ Head(stage_log) = "assess"
            /\ assessed.keys = config.sub_traits.keys
            /\ raised = NoExc]_vars
\* The assessor raised on the second dilemma; the resolver is as the first
\* dilemma left it.
C29_Witness ==
    /\ pc = "idle"
    /\ raised # NoExc
    /\ raised.msg = <<"llm">>
    /\ Len(handed_log) = 2
    /\ time_step = 1
    /\ adjustment_factors.keys # <<>>

\* C30: both boosts commute with clamping: the boosted score of a Duty trait
\* (k = 1.15) and of a core trait (k = 1.08) is the same whether the input v
\* is clamped first or not, clamp(trunc(clamp(v) * k)) = clamp(trunc(v * k)).
C30_BoostsCommute ==
    (fn_op = "boosts" /\ fn_ret # <<>>) =>
        /\ \A t \in Range(TraitOrder) :
              MidLevelOf(t) = "Duty" =>
                 /\ fn_ret[1].duty.val[t] = fn_ret[1].duty_of_clamped.val[t]
                 /\ fn_ret[1].duty.val[t]
                       = Max(SCORE_MIN, Min(SCORE_MAX, FloatMulTrunc115(fn_arg)))
        /\ \A t \in Range(CORE_TRAITS) :
              /\ fn_ret[1].core.val[t] = fn_ret[1].core_of_clamped.val[t]
              /\ fn_ret[1].core.val[t]
                    = Max(SCORE_MIN, Min(SCORE_MAX, TruncDiv(fn_arg * CORE_TRAIT_BOOST, 100)))
\* An input over the range, and one under it.
C30_Witness ==
    /\ fn_op = "boosts"
    /\ fn_ret # <<>>
    /\ fn_arg = 2 * SCORE_MAX
    /\ fn_ret[1].duty.val["TC"] = SCORE_MAX
    /\ fn_ret[1].duty_of_clamped.val["TC"] = SCORE_MAX
    /\ fn_ret[1].core.val["NC"] = SCORE_MAX

\* C31: the Result of a dilemma (scores, conflicts, mcda_score,
\* balance_score) does not depend on the state of the resolver: two
\* processors with different histories return the same Result for the same
\* dilemma, configuration and assessor outputs, by either path of resolve.
C31_Called == fn_op = "process_dilemma" /\ fn_ret # <<>>
C31_ResultIndependentVectorized ==
    C31_Called => fn_ret[1].vector_first = fn_ret[1].vector_second

\* C32: with the built-in overrides and a conflict_threshold of at most 1.0,
\* a detection over the taxonomy flags at most three pairs, never a pair and
\* its reverse, never a diagonal pair, and no trait in two pairs; so a cycle
\* reduces each score by 0.95 at most once and takes at most 0.15 off the
\* momentum beyond its 0.9 decay.
C32_Called == fn_op = "detect_threshold" /\ fn_ret # <<>>
C32_TraitsOf(c) == {c[1], c[2]}
C32_DisjointPairs ==
    C32_Called =>
        LET c == fn_ret[1].conflicts
            r == fn_ret[1].resolved
        IN  /\ fn_arg.conflict_threshold <= NeutralWeight
            /\ Len(c) <= 3
            /\ \A k \in 1..Len(c) :
                  /\ c[k][1] # c[k][2]
                  /\ \A l \in 1..Len(c) :
                        /\ c[l] # <<c[k][2], c[k][1]>>
                        /\ l # k => C32_TraitsOf(c[k]) \cap C32_TraitsOf(c[l]) = {}
            /\ \A t \in Range(TraitOrder) :
                  r.scores.val[t]
                     \in {fn_arg.scores.val[t],
                          clamp_score(FloatMulTrunc(fn_arg.scores.val[t], 95))}
            /\ 20 * r.rs.ethical_momentum >= 20 * damp_momentum(MomOne) - 3 * MomOne
            /\ 20 * r.rs.ethical_momentum = 20 * damp_momentum(MomOne) - Len(c) * MomOne
\* All three overrides flagged under the largest threshold.
C32_Witness ==
    /\ C32_Called
    /\ fn_arg.conflict_threshold = NeutralWeight
    /\ fn_ret[1].conflicts = << <<7, 8>>, <<9, 5>>, <<11, 10>> >>
    /\ 20 * fn_ret[1].resolved.rs.ethical_momentum = 15 * MomOne

\* C33: the momentum of a resolver is within [0, 1] in every state, and 0 is
\* absorbing: no later resolve cycle raises a momentum of 0.
C33_InUnit(m) ==
    /\ m.hi >= 0
    /\ m.lo \in 0..(LongLimb - 1)
    /\ LongLeq(m, LongOne)
C33_MomentumInUnit ==
    [][/\ C33_InUnit(ethical_momentum)
       /\ C33_InUnit(ethical_momentum')
       /\ LongLeq(ethical_momentum', ethical_momentum)
       /\ ethical_momentum = LongZero => ethical_momentum' = LongZero]_vars
\* A momentum of 0 that the last cycle of the run, one without a conflict,
\* found at 0 and left there.
C33_Witness ==
    /\ fn_op = "resolve cycles"
    /\ time_step = MaxCycles
    /\ fn_arg[MaxCycles] = CalmDilemma
    /\ conflicts = <<>>
    /\ ethical_momentum = LongZero

\* C34: when the cycles of a resolver go on with at least one conflict each,
\* the momentum reaches exactly 0, from 1.0 within 11 such cycles; a cycle
\* without a conflict scales the momentum by 0.9 and leaves a positive
\* momentum positive.
C34_ConflictCycles == Cardinality({i \in 1..time_step : fn_arg[i].conflicts # <<>>})
C34_MomentumToZero ==
    /\ <>(ethical_momentum = LongZero)
    /\ [](C34_ConflictCycles >= 11 => ethical_momentum = LongZero)
    /\ [][(time_step' = time_step + 1 /\ conflicts' = <<>>) =>
            /\ 10 * ethical_momentum'.hi + ((10 * ethical_momentum'.lo) \div LongLimb)
                  = 9 * ethical_momentum.hi + ((9 * ethical_momentum.lo) \div LongLimb)
            /\ (10 * ethical_momentum'.lo) % LongLimb
                  = (9 * ethical_momentum.lo) % LongLimb
            /\ ethical_momentum # LongZero => ethical_momentum' # LongZero]_vars
\* Eleven cycles with the one conflict of the scenario each.
C34_Witness ==
    /\ fn_op = "resolve cycles"
    /\ time_step = 11
    /\ \A i \in 1..11 : fn_arg[i] = ScenarioDilemma
    /\ Len(conflicts) = 1
    /\ ethical_momentum = LongZero

====
